---- MODULE Spec2Model ----
(***************************************************************************)
(* Model of the thunder-orchard sidechain node core: the ledger state      *)
(* (tip, height, utxos, stxos, utreexo accumulator, orchard frontier,      *)
(* nullifiers, historical roots), block validation, block connect and      *)
(* disconnect, and transaction admission checks.                           *)
(*                                                                         *)
(* Content hashes (Blake3) are modelled as injective: a hash is the value  *)
(* hashed, restricted to the fields the code feeds to the hasher.          *)
(***************************************************************************)
EXTENDS Integers, Sequences, FiniteSets, Bags, TLC

VARIABLES
    tip,              \* Option<BlockHash>: state.tip
    height,           \* Option<u32>: state.height
    utxos,            \* OutPointKey -> Output
    stxos,            \* OutPointKey -> SpentOutput
    accumulator,      \* state.utreexo_accumulator
    frontier,         \* state.orchard.frontier
    nullifiers,       \* state.orchard.nullifiers
    historical_roots, \* state.orchard.historical_roots
    archive,          \* connected blocks with their rollback checkpoints
    mempool,          \* MemPool: transactions, spent_utxos, used_nullifiers
    node,             \* the mainchain task, its channels and its handles
    op                \* the call that has just returned, with its result

vars == <<tip, height, utxos, stxos, accumulator, frontier, nullifiers,
          historical_roots, archive, mempool, node, op>>

(***************************************************************************)
(* Bounds of the model.                                                    *)
(***************************************************************************)
\* Longest chain the model connects.
MaxHeight == 2
\* Largest amount representable (u64::MAX in the program), scaled down.
MaxAmount == 3
\* Leaves the note commitment frontier can hold (2^32 in the program).
FrontierCapacity == 3

(***************************************************************************)
(* Option and sequence helpers.                                            *)
(***************************************************************************)
None == <<>>
Some(x) == <<x>>
IsSome(o) == o # <<>>
Unwrap(o) == o[1]

EmptyMap == [k \in {} |-> {}]
MapPut(m, k, v) == [x \in (DOMAIN m) \cup {k} |-> IF x = k THEN v ELSE m[x]]
MapDelete(m, k) == [x \in (DOMAIN m) \ {k} |-> m[x]]

RECURSIVE SeqToBag(_)
SeqToBag(s) ==
    IF s = <<>> THEN EmptyBag
    ELSE SetToBag({Head(s)}) (+) SeqToBag(Tail(s))

RECURSIVE Flatten(_)
Flatten(ss) == IF ss = <<>> THEN <<>> ELSE Head(ss) \o Flatten(Tail(ss))

RECURSIVE Repeat(_, _)
Repeat(x, n) == IF n = 0 THEN <<>> ELSE <<x>> \o Repeat(x, n - 1)

Min(a, b) == IF a < b THEN a ELSE b

\* bitcoin::Amount::checked_add: None on overflow.
checked_add(a, b) == IF a + b > MaxAmount THEN None ELSE Some(a + b)

(***************************************************************************)
(* Keys, addresses, signatures.                                            *)
(***************************************************************************)
Keys == {"k1", "k2"}

\* The address of a verifying key: a truncated hash of the key bytes.
get_address(verifying_key) == [blake3_20 |-> verifying_key]

\* What borsh::to_vec(&transaction) encodes: the proof field is skipped.
tx_bytes_canonical(tx) ==
    [inputs |-> tx.inputs, outputs |-> tx.outputs,
     orchard_bundle |-> tx.orchard_bundle]

\* An ed25519 signature: valid for exactly the key and message it was made with.
sign(signing_key, tx) == [signer |-> signing_key, msg |-> tx_bytes_canonical(tx)]

\* A signature no key verifies.
BadSignature == [signer |-> "nobody", msg |-> [inputs |-> <<>>, outputs |-> <<>>,
                                                orchard_bundle |-> None]]

verify_sig(verifying_key, msg, signature) ==
    signature.signer = verifying_key /\ signature.msg = msg

\* ed25519_dalek::verify_batch over equally long lists.
verify_batch(messages, signatures, verifying_keys) ==
    \A i \in 1..Len(messages) :
        verify_sig(verifying_keys[i], messages[i], signatures[i])

(***************************************************************************)
(* Outpoints, outputs, transactions, bodies, headers.                      *)
(***************************************************************************)
Regular(id, vout) == [kind |-> "Regular", hash |-> id, vout |-> vout]
Coinbase(merkle_root, vout) == [kind |-> "Coinbase", hash |-> merkle_root, vout |-> vout]

\* The fixed-width key: discriminant byte, 32 hash bytes, vout.
from_outpoint(outpoint) ==
    << CASE outpoint.kind = "Regular" -> 0
         [] outpoint.kind = "Coinbase" -> 1
         [] OTHER -> 2,
       outpoint.hash, outpoint.vout >>

Output(address, value) == [address |-> address, value |-> value]
get_value(output) == output.value

\* BitcoinNodeHash::from(&PointedOutput): the utreexo leaf of a UTXO.
leaf_hash(outpoint, output) == [outpoint |-> outpoint, output |-> output]

\* An orchard bundle stripped of its proof and signatures.
without_auth(bundle) ==
    [nullifiers |-> bundle.nullifiers, cmxs |-> bundle.cmxs,
     anchor |-> bundle.anchor, spends_enabled |-> bundle.spends_enabled,
     value_balance |-> bundle.value_balance]

\* A txid that hashes the proof as well.
txid_with_proof(tx) ==
    [inputs |-> tx.inputs, proof |-> tx.proof, outputs |-> tx.outputs,
     orchard_bundle |->
        IF IsSome(tx.orchard_bundle)
        THEN Some(without_auth(Unwrap(tx.orchard_bundle))) ELSE None]

\* Transaction::txid: inputs, outputs and the bundle without its
\* authorization; the proof is left out.
txid(tx) ==
    [inputs |-> tx.inputs, outputs |-> tx.outputs,
     orchard_bundle |->
        IF IsSome(tx.orchard_bundle)
        THEN Some(without_auth(Unwrap(tx.orchard_bundle))) ELSE None]

\* The hash of the borsh encoding of (coinbase, transactions).
compute_merkle_root(body) ==
    [coinbase |-> body.coinbase,
     transactions |-> [i \in 1..Len(body.transactions) |->
                          tx_bytes_canonical(body.transactions[i])]]

\* Header::hash
block_hash(header) == header

calculate_total_inputs(body) ==
    Len(Flatten([i \in 1..Len(body.transactions) |-> body.transactions[i].inputs]))

(***************************************************************************)
(* Utreexo accumulator: an accumulator is the multiset of its leaves, and   *)
(* its roots commit to exactly that multiset.                              *)
(***************************************************************************)
AccumulatorDefault == EmptyBag
AccumulatorDiffDefault == [insert |-> EmptyBag, remove |-> EmptyBag]

diff_insert(diff, utxo_hash) ==
    [diff EXCEPT !.insert = @ (+) SetToBag({utxo_hash})]
diff_remove(diff, utxo_hash) ==
    [diff EXCEPT !.remove = @ (+) SetToBag({utxo_hash})]

\* Accumulator::apply_diff: deletions, then insertions; a deletion of a leaf
\* the accumulator does not hold is an error.
apply_diff(acc, diff) ==
    IF diff.remove \sqsubseteq acc
    THEN [ok |-> TRUE, acc |-> (acc (-) diff.remove) (+) diff.insert]
    ELSE [ok |-> FALSE, acc |-> acc]

get_roots(acc) == acc

\* Accumulator::prove
prove(targets) == [targets |-> targets, bad |-> FALSE]
\* A well-formed proof that proves nothing.
BadProof == [targets |-> <<>>, bad |-> TRUE]

\* Accumulator::verify
verify(acc, proof, targets) ==
    /\ ~proof.bad
    /\ proof.targets = targets
    /\ SeqToBag(targets) \sqsubseteq acc

(***************************************************************************)
(* Orchard store: frontier, nullifiers, historical roots.                  *)
(***************************************************************************)
FrontierDefault == <<>>
frontier_root(f) == [root_of |-> f]
empty_tree == frontier_root(FrontierDefault)

\* Frontier::append: false when the tree is full.
frontier_can_append(f) == Len(f) < FrontierCapacity

\* Orchard::put_historical_root: records the root under the block that first
\* produced it; true iff the root was not yet known.
put_historical_root(roots, hash, root) ==
    IF root \in DOMAIN roots
    THEN [changed |-> FALSE, roots |-> roots]
    ELSE [changed |-> TRUE, roots |-> MapPut(roots, root, hash)]

\* Orchard::delete_historical_root: drops the root recorded under the block.
delete_historical_root(roots, hash) ==
    [r \in {x \in DOMAIN roots : roots[x] # hash} |-> roots[r]]

\* verify_orchard: binding signature over the txid, then the bundle proof.
verify_orchard(tx) ==
    IF IsSome(tx.orchard_bundle)
    THEN /\ Unwrap(tx.orchard_bundle).binding_sig_ok
         /\ Unwrap(tx.orchard_bundle).proof_ok
    ELSE TRUE

(***************************************************************************)
(* Dynamic limits.                                                         *)
(***************************************************************************)
RECURSIVE Growth(_, _)
\* floor(start * 1.04^month)
Growth(start, month) ==
    IF month = 0 THEN start ELSE (Growth(start, month - 1) * 104) \div 100

body_sigops_limit(h) ==
    LET month == h \div (6 * 24 * 30)
    IN  IF month < 120 THEN Growth(42800, month) ELSE 42800 * 111

body_size_limit(h) ==
    LET month == h \div (6 * 24 * 30)
    IN  IF month < 120 THEN Growth(8 * 1024 * 1024, month)
        ELSE 8 * 1024 * 1024 * 111

\* borsh::object_length(&body)
RECURSIVE SumSizes(_)
SumSizes(txs) ==
    IF txs = <<>> THEN 0
    ELSE LET t == Head(txs)
         IN  4 + 69 * Len(t.inputs) + 4 + 29 * Len(t.outputs) + 1
             + (IF IsSome(t.orchard_bundle) THEN 600 ELSE 0)
             + SumSizes(Tail(txs))

object_length(body) ==
    4 + 29 * Len(body.coinbase) + 4 + SumSizes(body.transactions)
    + 4 + 96 * Len(body.authorizations)

(***************************************************************************)
(* Results.                                                                *)
(***************************************************************************)
Err(e) == [ok |-> FALSE, err |-> e]

(***************************************************************************)
(* State::fill_transaction                                                 *)
(***************************************************************************)
RECURSIVE fill_inputs(_, _, _, _)
fill_inputs(st, inputs, i, spent) ==
    IF i > Len(inputs) THEN [ok |-> TRUE, err |-> "", spent_utxos |-> spent]
    ELSE LET Get(key) ==
                 IF key \notin DOMAIN st.utxos
                 THEN [ok |-> FALSE, err |-> "NoUtxo", spent_utxos |-> spent]
                 ELSE fill_inputs(st, inputs, i + 1, Append(spent, st.utxos[key]))
         IN  Get(from_outpoint(inputs[i][1]))

fill_transaction(st, transaction) ==
    LET Filled(r) ==
            [ok |-> r.ok, err |-> r.err,
             filled |-> [transaction |-> transaction,
                         spent_utxos |-> r.spent_utxos]]
    IN  Filled(fill_inputs(st, transaction.inputs, 1, <<>>))

(***************************************************************************)
(* State::validate_filled_transaction                                      *)
(***************************************************************************)
RECURSIVE checked_sum(_, _, _)
\* Folds checked_add over the values of outputs[i..]; None on overflow.
checked_sum(outputs, i, acc) ==
    IF i > Len(outputs) THEN Some(acc)
    ELSE LET Add(s) ==
                 IF s = None THEN None ELSE checked_sum(outputs, i + 1, Unwrap(s))
         IN  Add(checked_add(acc, get_value(outputs[i])))

Abs(x) == IF x < 0 THEN -x ELSE x

FeeErr(e) == [ok |-> FALSE, err |-> e, fee |-> 0]

\* A value rule that leaves the value balance of the bundle out.
validate_filled_transaction_unbalanced(filled) ==
    LET Fee(vin, vout) ==
            IF vin = None \/ vout = None THEN FeeErr("AmountOverflow")
            ELSE IF Unwrap(vout) > Unwrap(vin) THEN FeeErr("NotEnoughValueIn")
            ELSE [ok |-> TRUE, err |-> "", fee |-> Unwrap(vin) - Unwrap(vout)]
    IN  Fee(checked_sum(filled.spent_utxos, 1, 0),
            checked_sum(filled.transaction.outputs, 1, 0))

\* State::validate_filled_transaction
validate_filled_transaction(filled) ==
    LET bundle == filled.transaction.orchard_bundle
        vb == IF IsSome(bundle) THEN Unwrap(bundle).value_balance ELSE 0
        Fee(vin1, vout1) ==
            IF vin1 = None \/ vout1 = None THEN FeeErr("AmountOverflow")
            ELSE IF Unwrap(vout1) > Unwrap(vin1) THEN FeeErr("NotEnoughValueIn")
            ELSE [ok |-> TRUE, err |-> "", fee |-> Unwrap(vin1) - Unwrap(vout1)]
        Balance(vin0, vout0) ==
            IF vin0 = None THEN FeeErr("AmountOverflow")
            ELSE IF vout0 = None THEN FeeErr("AmountOverflow")
            ELSE Fee(IF IsSome(bundle) /\ vb > 0
                     THEN checked_add(Unwrap(vin0), Abs(vb)) ELSE vin0,
                     IF IsSome(bundle) /\ ~(vb > 0)
                     THEN checked_add(Unwrap(vout0), Abs(vb)) ELSE vout0)
    IN  Balance(checked_sum(filled.spent_utxos, 1, 0),
                checked_sum(filled.transaction.outputs, 1, 0))

(***************************************************************************)
(* Authorization                                                           *)
(***************************************************************************)
\* verify_authorized_transaction
verify_authorized_transaction(at) ==
    /\ verify_orchard(at.transaction)
    /\ verify_batch(Repeat(tx_bytes_canonical(at.transaction),
                           Len(at.authorizations)),
                    [i \in 1..Len(at.authorizations) |->
                        at.authorizations[i].signature],
                    [i \in 1..Len(at.authorizations) |->
                        at.authorizations[i].verifying_key])

\* A verification that pairs authorizations with inputs without comparing
\* their numbers.
verify_authorizations_uncounted(body) ==
    LET txs == body.transactions
        Paired(messages, n) ==
            IF verify_batch(SubSeq(messages, 1, n),
                            [i \in 1..n |-> body.authorizations[i].signature],
                            [i \in 1..n |-> body.authorizations[i].verifying_key])
            THEN "" ELSE "DalekError"
        Zipped(messages) ==
            Paired(messages, Min(Len(messages), Len(body.authorizations)))
    IN  IF \E i \in 1..Len(txs) : ~verify_orchard(txs[i]) THEN "Orchard"
        ELSE Zipped(Flatten([i \in 1..Len(txs) |->
                Repeat(tx_bytes_canonical(txs[i]), Len(txs[i].inputs))]))

\* const CHUNK_SIZE: usize = 1 << 14 in the code; the model verifies in
\* chunks of CHUNK_SIZE pairs, small enough for a body to span several.
CHUNK_SIZE == 2

\* pairs.par_chunks(CHUNK_SIZE): the first and last index of every chunk.
par_chunks(n) ==
    {<<c * CHUNK_SIZE + 1, Min(n, (c + 1) * CHUNK_SIZE)>> :
        c \in 0..((n - 1) \div CHUNK_SIZE)}

\* The serialized transactions, each repeated once per input.
flat_messages(txs) ==
    Flatten([i \in 1..Len(txs) |->
        Repeat(tx_bytes_canonical(txs[i]), Len(txs[i].inputs))])

\* A verification that checks every authorization against the serialization
\* of the first transaction of the body.
verify_authorizations_first_message(body) ==
    LET txs == body.transactions
        n == Len(body.authorizations)
        Counted(verifications_required) ==
            IF n < verifications_required THEN "NotEnoughAuthorizations"
            ELSE IF n > verifications_required THEN "TooManyAuthorizations"
            ELSE IF verifications_required = 0 THEN ""
            ELSE IF verify_batch(
                      Repeat(tx_bytes_canonical(txs[1]), n),
                      [i \in 1..n |-> body.authorizations[i].signature],
                      [i \in 1..n |-> body.authorizations[i].verifying_key])
                 THEN "" ELSE "DalekError"
    IN  IF \E i \in 1..Len(txs) : ~verify_orchard(txs[i]) THEN "Orchard"
        ELSE Counted(calculate_total_inputs(body))

\* verify_authorizations: "" when the body verifies, else the error.
verify_authorizations(body) ==
    LET txs == body.transactions
        n == Len(body.authorizations)
        Chunk(messages, lo, hi) ==
            verify_batch(SubSeq(messages, lo, hi),
                [i \in 1..(hi - lo + 1) |-> body.authorizations[lo + i - 1].signature],
                [i \in 1..(hi - lo + 1) |->
                    body.authorizations[lo + i - 1].verifying_key])
        Counted(verifications_required) ==
            IF n < verifications_required THEN "NotEnoughAuthorizations"
            ELSE IF n > verifications_required THEN "TooManyAuthorizations"
            ELSE IF verifications_required = 0 THEN ""
            ELSE IF \A chunk \in par_chunks(n) :
                        Chunk(flat_messages(txs), chunk[1], chunk[2])
                 THEN "" ELSE "DalekError"
    IN  IF \E i \in 1..Len(txs) : ~verify_orchard(txs[i]) THEN "Orchard"
        ELSE Counted(calculate_total_inputs(body))

(***************************************************************************)
(* block::validate and block::prevalidate                                  *)
(***************************************************************************)
RECURSIVE coinbase_loop(_, _, _, _, _)
\* The loop over body.coinbase: sums the values and inserts the leaves.
coinbase_loop(coinbase, merkle_root, i, value, diff) ==
    IF i > Len(coinbase) THEN [ok |-> TRUE, value |-> value, diff |-> diff]
    ELSE LET Add(s) ==
                 IF s = None THEN [ok |-> FALSE, value |-> value, diff |-> diff]
                 ELSE coinbase_loop(coinbase, merkle_root, i + 1, Unwrap(s),
                        diff_insert(diff,
                            leaf_hash(Coinbase(merkle_root, i - 1), coinbase[i])))
         IN  Add(checked_add(value, get_value(coinbase[i])))

RECURSIVE fill_all(_, _, _, _)
\* body.transactions.iter().map(fill_transaction).collect::<Result<_, _>>()
fill_all(st, txs, i, filled) ==
    IF i > Len(txs) THEN [ok |-> TRUE, err |-> "", filled |-> filled]
    ELSE LET Collect(r) ==
                 IF ~r.ok THEN [ok |-> FALSE, err |-> r.err, filled |-> filled]
                 ELSE fill_all(st, txs, i + 1, Append(filled, r.filled))
         IN  Collect(fill_transaction(st, txs[i]))

\* The input keys of the first transaction only.
first_transaction_input_keys(filled_transactions) ==
    IF filled_transactions = <<>> THEN <<>>
    ELSE [j \in 1..Len(filled_transactions[1].transaction.inputs) |->
            from_outpoint(filled_transactions[1].transaction.inputs[j][1])]

all_input_keys(filled_transactions) ==
    Flatten([i \in 1..Len(filled_transactions) |->
        [j \in 1..Len(filled_transactions[i].transaction.inputs) |->
            from_outpoint(filled_transactions[i].transaction.inputs[j][1])]])

RECURSIVE sorted_from(_, _)
\* The keys of S in ascending order, each as often as it occurs in keys.
sorted_from(S, keys) ==
    IF S = {} THEN <<>>
    ELSE LET Rest(k) ==
                 Repeat(k, Cardinality({i \in 1..Len(keys) : keys[i] = k}))
                 \o sorted_from(S \ {k}, keys)
         IN  Rest(CHOOSE x \in S : TRUE)

\* par_sort_unstable
par_sort_unstable(keys) ==
    sorted_from({keys[i] : i \in 1..Len(keys)}, keys)

\* all_input_keys.windows(2).any(|w| w[0] == w[1])
any_adjacent_equal(keys) ==
    \E i \in 1..(Len(keys) - 1) : keys[i] = keys[i + 1]

RECURSIVE remove_inputs(_, _, _)
remove_inputs(inputs, i, diff) ==
    IF i > Len(inputs) THEN diff
    ELSE remove_inputs(inputs, i + 1, diff_remove(diff, inputs[i][2]))

RECURSIVE insert_outputs(_, _, _, _)
insert_outputs(id, outputs, i, diff) ==
    IF i > Len(outputs) THEN diff
    ELSE insert_outputs(id, outputs, i + 1,
            diff_insert(diff, leaf_hash(Regular(id, i - 1), outputs[i])))

RECURSIVE transactions_loop(_, _, _, _, _)
\* The loop over the filled transactions: accumulator diff, fees, proofs.
transactions_loop(acc, filled, i, diff, total_fees) ==
    IF i > Len(filled)
    THEN [ok |-> TRUE, err |-> "", diff |-> diff, total_fees |-> total_fees]
    ELSE LET tx == filled[i].transaction
             Fail(e, d2) ==
                 [ok |-> FALSE, err |-> e, diff |-> d2, total_fees |-> total_fees]
             Proof(d2, sum) ==
                 IF sum = None THEN Fail("AmountOverflow", d2)
                 ELSE IF ~verify(acc, tx.proof,
                                 [j \in 1..Len(tx.inputs) |-> tx.inputs[j][2]])
                 THEN Fail("UtreexoProofFailed", d2)
                 ELSE transactions_loop(acc, filled, i + 1, d2, Unwrap(sum))
             Fees(d2, fee) ==
                 IF ~fee.ok THEN Fail(fee.err, d2)
                 ELSE Proof(d2, checked_add(total_fees, fee.fee))
         IN  Fees(insert_outputs(txid(tx), tx.outputs, 1,
                                 remove_inputs(tx.inputs, 1, diff)),
                  validate_filled_transaction(filled[i]))

\* A comparison of signers with owners that is left out.
addresses_unchecked(authorizations, spent_utxos) == TRUE

\* for (authorization, spent_utxo) in body.authorizations.iter().zip(spent_utxos)
addresses_match(authorizations, spent_utxos) ==
    \A i \in 1..Min(Len(authorizations), Len(spent_utxos)) :
        get_address(authorizations[i].verifying_key) = spent_utxos[i].address

flat_spent_utxos(filled_transactions) ==
    Flatten([i \in 1..Len(filled_transactions) |->
                filled_transactions[i].spent_utxos])

\* A coinbase may pay out no more than the fees: if coinbase_value >
\* total_fees the block is refused.  (The first operator is the comparison
\* left out.)
fees_unchecked(coinbase_value, total_fees) == FALSE

not_enough_fees(coinbase_value, total_fees) == coinbase_value > total_fees

NoBlock ==
    [filled_transactions |-> <<>>, total_fees |-> 0, coinbase_value |-> 0,
     next_height |-> 0, accumulator_diff |-> AccumulatorDiffDefault]

BlockErr(e) == [ok |-> FALSE, err |-> e, block |-> NoBlock]

\* The checks validate and prevalidate both make, in the order of the code.
block_checks(st, header, body) ==
    LET h == IF st.height = None THEN 0 ELSE Unwrap(st.height) + 1
        Roots(fill, cb, txs, applied) ==
            IF ~applied.ok THEN BlockErr("Utreexo")
            ELSE IF get_roots(applied.acc) # header.roots
            THEN BlockErr("UtreexoRootsMismatch")
            ELSE [ok |-> TRUE, err |-> "",
                  block |-> [filled_transactions |-> fill.filled,
                             total_fees |-> txs.total_fees,
                             coinbase_value |-> cb.value,
                             next_height |-> h,
                             accumulator_diff |-> txs.diff]]
        Authorized(fill, cb, txs) ==
            IF ~txs.ok THEN BlockErr(txs.err)
            ELSE IF not_enough_fees(cb.value, txs.total_fees)
            THEN BlockErr("NotEnoughFees")
            ELSE IF ~addresses_match(body.authorizations,
                                     flat_spent_utxos(fill.filled))
            THEN BlockErr("WrongPubKeyForAddress")
            ELSE IF verify_authorizations(body) # ""
            THEN BlockErr("AuthorizationError")
            ELSE Roots(fill, cb, txs, apply_diff(st.accumulator, txs.diff))
        Spent(fill, cb) ==
            IF ~fill.ok THEN BlockErr(fill.err)
            ELSE IF any_adjacent_equal(par_sort_unstable(all_input_keys(fill.filled)))
            THEN BlockErr("UtxoDoubleSpent")
            ELSE Authorized(fill, cb,
                    transactions_loop(st.accumulator, fill.filled, 1, cb.diff, 0))
        Minted(cb) ==
            IF ~cb.ok THEN BlockErr("AmountOverflow")
            ELSE Spent(fill_all(st, body.transactions, 1, <<>>), cb)
        Rooted(merkle_root) ==
            IF Len(body.authorizations) > body_sigops_limit(h)
            THEN BlockErr("TooManySigops")
            ELSE IF object_length(body) > body_size_limit(h)
            THEN BlockErr("BodyTooLarge")
            ELSE IF merkle_root # header.merkle_root THEN BlockErr("InvalidBody")
            ELSE Minted(coinbase_loop(body.coinbase, merkle_root, 1, 0,
                                      AccumulatorDiffDefault))
    IN  IF header.prev_side_hash # st.tip
        THEN BlockErr("InvalidHeader::PrevSideHash")
        ELSE Rooted(compute_merkle_root(body))

ValidateResult(r) == [ok |-> r.ok, err |-> r.err, total_fees |-> r.block.total_fees]

\* block::validate: the total fees of an accepted block.
validate(st, header, body) == ValidateResult(block_checks(st, header, body))

PrevalidateResult(r, computed_merkle_root) ==
    [ok |-> r.ok, err |-> r.err,
     prevalidated |-> [filled_transactions |-> r.block.filled_transactions,
                       computed_merkle_root |-> computed_merkle_root,
                       total_fees |-> r.block.total_fees,
                       coinbase_value |-> r.block.coinbase_value,
                       next_height |-> r.block.next_height,
                       accumulator_diff |-> r.block.accumulator_diff]]

\* block::prevalidate: the PrevalidatedBlock of an accepted block.
prevalidate(st, header, body) ==
    PrevalidateResult(block_checks(st, header, body), compute_merkle_root(body))

(***************************************************************************)
(* block::connect_orchard, block::disconnect_orchard                       *)
(*                                                                         *)
(* The operators below thread the contents of the write transaction (st)   *)
(* through the code's loops; on an error they return the contents as they  *)
(* are at the return, with the writes made so far.                         *)
(***************************************************************************)
RECURSIVE append_commitments(_, _, _)
append_commitments(cmxs, i, f) ==
    IF i > Len(cmxs) THEN [ok |-> TRUE, frontier |-> f]
    ELSE IF ~frontier_can_append(f) THEN [ok |-> FALSE, frontier |-> f]
    ELSE append_commitments(cmxs, i + 1, Append(f, cmxs[i]))

RECURSIVE store_nullifiers(_, _, _)
store_nullifiers(st, ns, i) ==
    IF i > Len(ns) THEN [ok |-> TRUE, st |-> st]
    ELSE IF ns[i] \in st.nullifiers THEN [ok |-> FALSE, st |-> st]
    ELSE store_nullifiers([st EXCEPT !.nullifiers = @ \cup {ns[i]}], ns, i + 1)

connect_orchard(st, bundle, f) ==
    LET Stored(a, n) ==
            [ok |-> n.ok,
             err |-> IF n.ok THEN "" ELSE "Orchard::NullifierDoubleSpent",
             st |-> n.st, frontier |-> a.frontier]
        Appended(a) ==
            IF ~a.ok
            THEN [ok |-> FALSE, err |-> "Orchard::AppendCommitment", st |-> st,
                  frontier |-> a.frontier]
            ELSE Stored(a, store_nullifiers(st, bundle.nullifiers, 1))
    IN  Appended(append_commitments(bundle.cmxs, 1, f))

\* (A disconnect that leaves the nullifiers of the bundle in the store.)
disconnect_orchard_kept(st, bundle) == st

disconnect_orchard(st, bundle) ==
    [st EXCEPT !.nullifiers =
        @ \ {bundle.nullifiers[i] : i \in 1..Len(bundle.nullifiers)}]

(***************************************************************************)
(* block::connect_prevalidated                                             *)
(***************************************************************************)
InPointRegular(id, vin) == [kind |-> "Regular", txid |-> id, vin |-> vin]
SpentOutput(output, inpoint) == [output |-> output, inpoint |-> inpoint]

\* par_sort_unstable_by_key(|(k, _)| *k)
par_sort_unstable_by_key(pairs) ==
    LET nth(k, n) == CHOOSE i \in 1..Len(pairs) :
                        /\ pairs[i][1] = k
                        /\ Cardinality({j \in 1..i : pairs[j][1] = k}) = n
        Sorted(keys) ==
            [i \in 1..Len(keys) |->
                pairs[nth(keys[i],
                          Cardinality({j \in 1..i : keys[j] = keys[i]}))]]
    IN  Sorted(par_sort_unstable([i \in 1..Len(pairs) |-> pairs[i][1]]))

RECURSIVE delete_all(_, _, _)
delete_all(m, keys, i) ==
    IF i > Len(keys) THEN m ELSE delete_all(MapDelete(m, keys[i]), keys, i + 1)

RECURSIVE put_all(_, _, _)
put_all(m, pairs, i) ==
    IF i > Len(pairs) THEN m
    ELSE put_all(MapPut(m, pairs[i][1], pairs[i][2]), pairs, i + 1)

RECURSIVE collect_mutations(_, _, _, _, _, _, _)
\* The loop over prevalidated.filled_transactions.
collect_mutations(st, filled, i, utxo_deletes, stxo_puts, utxo_puts, f) ==
    IF i > Len(filled)
    THEN [ok |-> TRUE, err |-> "", st |-> st, frontier |-> f,
          utxo_deletes |-> utxo_deletes, stxo_puts |-> stxo_puts,
          utxo_puts |-> utxo_puts]
    ELSE
    LET tx == filled[i].transaction
        Orchard(o, dels, sputs, uputs) ==
            IF ~o.ok
            THEN [ok |-> FALSE, err |-> o.err, st |-> o.st,
                  frontier |-> o.frontier, utxo_deletes |-> dels,
                  stxo_puts |-> sputs, utxo_puts |-> uputs]
            ELSE collect_mutations(o.st, filled, i + 1, dels, sputs, uputs,
                                   o.frontier)
        Collected(id) ==
            Orchard(
                IF IsSome(tx.orchard_bundle)
                THEN connect_orchard(st, Unwrap(tx.orchard_bundle), f)
                ELSE [ok |-> TRUE, err |-> "", st |-> st, frontier |-> f],
                utxo_deletes \o [vin \in 1..Len(tx.inputs) |->
                                    from_outpoint(tx.inputs[vin][1])],
                stxo_puts \o [vin \in 1..Len(tx.inputs) |->
                                << from_outpoint(tx.inputs[vin][1]),
                                   SpentOutput(filled[i].spent_utxos[vin],
                                               InPointRegular(id, vin - 1)) >>],
                utxo_puts \o [vout \in 1..Len(tx.outputs) |->
                                << from_outpoint(Regular(id, vout - 1)),
                                   tx.outputs[vout] >>])
    IN  Collected(txid(tx))

ConnectErr(e, st) == [ok |-> FALSE, err |-> e, st |-> st, ret |-> None]

\* The tail connect and connect_prevalidated share: tip, height, accumulator,
\* frontier and historical root.
finish_connect(st, header, next_height, diff, f) ==
    LET hash == block_hash(header)
        Rooted(st1, hr) ==
            [ok |-> TRUE, err |-> "",
             st |-> [st1 EXCEPT !.frontier = f, !.historical_roots = hr.roots],
             ret |-> IF hr.changed THEN Some(f) ELSE None]
        Applied(st1, applied) ==
            IF ~applied.ok THEN ConnectErr("Utreexo", st1)
            ELSE Rooted([st1 EXCEPT !.accumulator = applied.acc],
                        put_historical_root(st1.historical_roots, hash,
                                            frontier_root(f)))
    IN  Applied([st EXCEPT !.tip = Some(hash), !.height = Some(next_height)],
                apply_diff(st.accumulator, diff))

connect_prevalidated(st, header, body, prevalidated) ==
    LET merkle_root == prevalidated.computed_merkle_root
        Sorted(c) ==
            IF ~c.ok THEN ConnectErr(c.err, c.st)
            ELSE finish_connect(
                   [c.st EXCEPT
                      !.utxos = put_all(
                                  delete_all(@, par_sort_unstable(c.utxo_deletes), 1),
                                  par_sort_unstable_by_key(c.utxo_puts), 1),
                      !.stxos = put_all(@, par_sort_unstable_by_key(c.stxo_puts), 1)],
                   header, prevalidated.next_height,
                   prevalidated.accumulator_diff, c.frontier)
    IN  Sorted(collect_mutations(st, prevalidated.filled_transactions, 1,
                 <<>>, <<>>,
                 [vout \in 1..Len(body.coinbase) |->
                    << from_outpoint(Coinbase(merkle_root, vout - 1)),
                       body.coinbase[vout] >>],
                 st.frontier))

(***************************************************************************)
(* block::connect_transaction, block::connect                              *)
(***************************************************************************)
RECURSIVE connect_inputs(_, _, _, _, _)
connect_inputs(st, id, inputs, vin, diff) ==
    IF vin > Len(inputs) THEN [ok |-> TRUE, st |-> st, diff |-> diff]
    ELSE LET Spend(key) ==
                 IF key \notin DOMAIN st.utxos
                 THEN [ok |-> FALSE, st |-> st, diff |-> diff]
                 ELSE connect_inputs(
                        [st EXCEPT
                           !.utxos = MapDelete(@, key),
                           !.stxos = MapPut(@, key,
                                        SpentOutput(st.utxos[key],
                                                    InPointRegular(id, vin - 1)))],
                        id, inputs, vin + 1, diff_remove(diff, inputs[vin][2]))
         IN  Spend(from_outpoint(inputs[vin][1]))

RECURSIVE connect_outputs(_, _, _, _, _)
connect_outputs(st, id, outputs, i, diff) ==
    IF i > Len(outputs) THEN [st |-> st, diff |-> diff]
    ELSE connect_outputs(
            [st EXCEPT !.utxos =
                MapPut(@, from_outpoint(Regular(id, i - 1)), outputs[i])],
            id, outputs, i + 1,
            diff_insert(diff, leaf_hash(Regular(id, i - 1), outputs[i])))

connect_transaction(st, transaction, diff, f) ==
    LET Orchard(outs, o) ==
            [ok |-> o.ok, err |-> o.err, st |-> o.st, diff |-> outs.diff,
             frontier |-> o.frontier]
        Outputs(outs) ==
            IF IsSome(transaction.orchard_bundle)
            THEN Orchard(outs, connect_orchard(outs.st,
                                   Unwrap(transaction.orchard_bundle), f))
            ELSE [ok |-> TRUE, err |-> "", st |-> outs.st, diff |-> outs.diff,
                  frontier |-> f]
        Inputs(id, ins) ==
            IF ~ins.ok
            THEN [ok |-> FALSE, err |-> "NoUtxo", st |-> ins.st,
                  diff |-> ins.diff, frontier |-> f]
            ELSE Outputs(connect_outputs(ins.st, id, transaction.outputs, 1,
                                         ins.diff))
        WithId(id) == Inputs(id, connect_inputs(st, id, transaction.inputs, 1, diff))
    IN  WithId(txid(transaction))

RECURSIVE connect_coinbase(_, _, _, _, _)
connect_coinbase(st, merkle_root, coinbase, i, diff) ==
    IF i > Len(coinbase) THEN [st |-> st, diff |-> diff]
    ELSE connect_coinbase(
            [st EXCEPT !.utxos =
                MapPut(@, from_outpoint(Coinbase(merkle_root, i - 1)), coinbase[i])],
            merkle_root, coinbase, i + 1,
            diff_insert(diff, leaf_hash(Coinbase(merkle_root, i - 1), coinbase[i])))

RECURSIVE connect_transactions(_, _, _, _, _)
connect_transactions(st, txs, i, diff, f) ==
    IF i > Len(txs)
    THEN [ok |-> TRUE, err |-> "", st |-> st, diff |-> diff, frontier |-> f]
    ELSE LET Connected(r) ==
                 IF ~r.ok THEN r
                 ELSE connect_transactions(r.st, txs, i + 1, r.diff, r.frontier)
         IN  Connected(connect_transaction(st, txs[i], diff, f))

connect(st, header, body) ==
    LET Transactions(txs) ==
            IF ~txs.ok THEN ConnectErr(txs.err, txs.st)
            ELSE finish_connect(txs.st, header,
                                IF txs.st.height = None THEN 0
                                ELSE Unwrap(txs.st.height) + 1,
                                txs.diff, txs.frontier)
        CoinbaseDone(cb) ==
            Transactions(connect_transactions(cb.st, body.transactions, 1,
                                              cb.diff, st.frontier))
        Rooted(merkle_root) ==
            IF merkle_root # header.merkle_root THEN ConnectErr("InvalidBody", st)
            ELSE CoinbaseDone(connect_coinbase(st, merkle_root, body.coinbase, 1,
                                               AccumulatorDiffDefault))
    IN  IF st.tip # header.prev_side_hash
        THEN ConnectErr("InvalidHeader::PrevSideHash", st)
        ELSE Rooted(compute_merkle_root(body))

(***************************************************************************)
(* block::disconnect_transaction, block::disconnect_tip                    *)
(***************************************************************************)
StErr(e, st) == [ok |-> FALSE, err |-> e, st |-> st]

RECURSIVE delete_outputs_rev(_, _, _, _, _, _)
\* Deletes the UTXOs of kind and hash, last vout to first; NoUtxo when one is
\* absent.
delete_outputs_rev(st, kind, hash, outputs, i, diff) ==
    IF i < 1 THEN [ok |-> TRUE, st |-> st, diff |-> diff]
    ELSE LET Delete(outpoint, key, d) ==
                 IF key \in DOMAIN st.utxos
                 THEN delete_outputs_rev([st EXCEPT !.utxos = MapDelete(@, key)],
                                         kind, hash, outputs, i - 1, d)
                 ELSE [ok |-> FALSE, st |-> st, diff |-> d]
             Pointed(outpoint) ==
                 Delete(outpoint, from_outpoint(outpoint),
                        diff_remove(diff, leaf_hash(outpoint, outputs[i])))
         IN  Pointed([kind |-> kind, hash |-> hash, vout |-> i - 1])

RECURSIVE unspend_inputs_rev(_, _, _, _)
\* Moves the STXOs back to the UTXO set, last to first; NoStxo when one is absent.
unspend_inputs_rev(st, inputs, i, diff) ==
    IF i < 1 THEN [ok |-> TRUE, st |-> st, diff |-> diff]
    ELSE LET Unspend(key) ==
                 IF key \in DOMAIN st.stxos
                 THEN unspend_inputs_rev(
                        [st EXCEPT !.stxos = MapDelete(@, key),
                                   !.utxos = MapPut(@, key, st.stxos[key].output)],
                        inputs, i - 1, diff_insert(diff, inputs[i][2]))
                 ELSE [ok |-> FALSE, st |-> st, diff |-> diff]
         IN  Unspend(from_outpoint(inputs[i][1]))

disconnect_transaction(st, transaction, diff) ==
    LET Inputs(ins) ==
            [ok |-> ins.ok, err |-> IF ins.ok THEN "" ELSE "NoStxo",
             st |-> ins.st, diff |-> ins.diff]
        Outputs(outs) ==
            IF ~outs.ok
            THEN [ok |-> FALSE, err |-> "NoUtxo", st |-> outs.st,
                  diff |-> outs.diff]
            ELSE Inputs(unspend_inputs_rev(outs.st, transaction.inputs,
                                           Len(transaction.inputs), outs.diff))
    IN  Outputs(delete_outputs_rev(
                  IF IsSome(transaction.orchard_bundle)
                  THEN disconnect_orchard(st, Unwrap(transaction.orchard_bundle))
                  ELSE st,
                  "Regular", txid(transaction), transaction.outputs,
                  Len(transaction.outputs), diff))

RECURSIVE disconnect_transactions_rev(_, _, _, _)
disconnect_transactions_rev(st, txs, i, diff) ==
    IF i < 1 THEN [ok |-> TRUE, err |-> "", st |-> st, diff |-> diff]
    ELSE LET Disconnected(r) ==
                 IF ~r.ok THEN r
                 ELSE disconnect_transactions_rev(r.st, txs, i - 1, r.diff)
         IN  Disconnected(disconnect_transaction(st, txs[i], diff))

\* A comparison of the merkle roots that is left out.
invalid_body_unchecked(merkle_root, header) == FALSE

\* if merkle_root != header.merkle_root
invalid_body(merkle_root, header) == merkle_root # header.merkle_root

disconnect_tip(st, header, body, prev_accumulator, prev_frontier) ==
    LET Applied(st1, applied) ==
            IF ~applied.ok THEN StErr("Utreexo", st1)
            ELSE [ok |-> TRUE, err |-> "",
                  st |-> [st1 EXCEPT
                            !.accumulator = prev_accumulator,
                            !.frontier = IF IsSome(prev_frontier)
                                         THEN Unwrap(prev_frontier) ELSE @,
                            !.historical_roots =
                                delete_historical_root(@, Unwrap(st.tip))]]
        CoinbaseDone(cb) ==
            IF ~cb.ok THEN StErr("NoUtxo", cb.st)
            ELSE IF (header.prev_side_hash = None) # (Unwrap(cb.st.height) = 0)
            THEN StErr("NoTip", cb.st)
            ELSE Applied(IF header.prev_side_hash = None
                         THEN [cb.st EXCEPT !.tip = None, !.height = None]
                         ELSE [cb.st EXCEPT
                                 !.tip = header.prev_side_hash,
                                 !.height = Some(Unwrap(cb.st.height) - 1)],
                         apply_diff(st.accumulator, cb.diff))
        Transactions(merkle_root, txs) ==
            IF ~txs.ok THEN StErr(txs.err, txs.st)
            ELSE CoinbaseDone(delete_outputs_rev(txs.st, "Coinbase", merkle_root,
                                body.coinbase, Len(body.coinbase), txs.diff))
        Rooted(merkle_root) ==
            IF invalid_body(merkle_root, header) THEN StErr("InvalidBody", st)
            ELSE Transactions(merkle_root,
                    disconnect_transactions_rev(st, body.transactions,
                        Len(body.transactions), AccumulatorDiffDefault))
    IN  IF st.tip = None THEN StErr("NoTip", st)
        ELSE IF Unwrap(st.tip) # block_hash(header)
        THEN StErr("InvalidHeader::BlockHash", st)
        ELSE Rooted(compute_merkle_root(body))

(***************************************************************************)
(* State::validate_transaction                                             *)
(***************************************************************************)
TxErr(e) == [ok |-> FALSE, err |-> e, fee |-> 0]

validate_transaction(st, at) ==
    LET bundle == at.transaction.orchard_bundle
        Filled(fill) ==
            IF ~fill.ok THEN TxErr(fill.err)
            ELSE IF ~addresses_match(at.authorizations, fill.filled.spent_utxos)
            THEN TxErr("WrongPubKeyForAddress")
            ELSE IF /\ IsSome(bundle)
                    /\ Unwrap(bundle).anchor = empty_tree
                    /\ Unwrap(bundle).spends_enabled
            THEN TxErr("Orchard::EmptyAnchor")
            ELSE IF /\ IsSome(bundle)
                    /\ Unwrap(bundle).anchor \notin DOMAIN st.historical_roots
            THEN TxErr("Orchard::InvalidAnchor")
            ELSE IF ~verify_authorized_transaction(at)
            THEN TxErr("AuthorizationError")
            ELSE validate_filled_transaction(fill.filled)
    IN  Filled(fill_transaction(st, at.transaction))

(***************************************************************************)
(* The ledger state and the blocks and transactions submitted to it.       *)
(***************************************************************************)
DB ==
    [tip |-> tip, height |-> height, utxos |-> utxos, stxos |-> stxos,
     accumulator |-> accumulator, frontier |-> frontier,
     nullifiers |-> nullifiers, historical_roots |-> historical_roots]

Idle == [kind |-> "idle"]

\* OutPoint::from(OutPointKey)
to_outpoint(key) ==
    [kind |-> CASE key[1] = 0 -> "Regular"
                [] key[1] = 1 -> "Coinbase"
                [] OTHER -> "Deposit",
     hash |-> key[2], vout |-> key[3]]

\* Body::modify_memforest: the accumulator a block producer commits to.
modify_memforest(acc, body) ==
    LET mr == compute_merkle_root(body)
        txs == body.transactions
        add == SeqToBag(
                 [i \in 1..Len(body.coinbase) |->
                     leaf_hash(Coinbase(mr, i - 1), body.coinbase[i])]
                 \o Flatten([t \in 1..Len(txs) |->
                     [i \in 1..Len(txs[t].outputs) |->
                         leaf_hash(Regular(txid(txs[t]), i - 1), txs[t].outputs[i])]]))
        del == SeqToBag(Flatten([t \in 1..Len(txs) |->
                     [i \in 1..Len(txs[t].inputs) |-> txs[t].inputs[i][2]]]))
    IN  apply_diff(acc, [insert |-> add, remove |-> del])

OA == Output(get_address("k1"), 0)
OV == Output(get_address("k1"), 1)
OMax == Output(get_address("k1"), MaxAmount)

\* A shielded bundle that reveals one nullifier and adds one note commitment.
B1 == [nullifiers |-> <<"n1">>, cmxs |-> <<"c1">>, anchor |-> empty_tree,
       spends_enabled |-> FALSE, value_balance |-> 0,
       proof_ok |-> TRUE, binding_sig_ok |-> TRUE]

\* A shielded bundle that reveals another nullifier and adds two commitments.
B2 == [nullifiers |-> <<"n2">>, cmxs |-> <<"c2", "c3">>, anchor |-> empty_tree,
       spends_enabled |-> FALSE, value_balance |-> 0,
       proof_ok |-> TRUE, binding_sig_ok |-> TRUE]

\* A shielded bundle that spends a note under an anchor no block has produced.
B3 == [nullifiers |-> <<"n3">>, cmxs |-> <<>>,
       anchor |-> frontier_root(<<"c9">>),
       spends_enabled |-> TRUE, value_balance |-> 0,
       proof_ok |-> TRUE, binding_sig_ok |-> TRUE]

\* Shielded bundles that spend a note under the anchor of the empty tree and
\* under the root of the stored frontier.
B4 == [B3 EXCEPT !.anchor = empty_tree]
B5 == [B3 EXCEPT !.anchor = frontier_root(frontier)]

\* A shielded bundle without spends under an anchor no block has produced.
B6 == [B3 EXCEPT !.spends_enabled = FALSE]

\* A shielded bundle that reveals one nullifier twice.
B2Twice == [B2 EXCEPT !.nullifiers = <<"n2", "n2">>]

Tx(inputs, proof, outputs, bundle) ==
    [inputs |-> inputs, proof |-> proof, outputs |-> outputs,
     orchard_bundle |-> bundle]

HonestTx(inputs, outputs, bundle) ==
    Tx(inputs, prove([i \in 1..Len(inputs) |-> inputs[i][2]]), outputs, bundle)

Auth(k, tx) == [verifying_key |-> k, signature |-> sign(k, tx)]

OwnerKey(key) ==
    IF key \in DOMAIN utxos THEN utxos[key].address.blake3_20 ELSE "k1"
OtherKey(k) == IF k = "k1" THEN "k2" ELSE "k1"

\* authorize: one authorization per input, by the key of the spent output.
HonestAuths(tx) ==
    [i \in 1..Len(tx.inputs) |-> Auth(OwnerKey(from_outpoint(tx.inputs[i][1])), tx)]

Body(coinbase, txs, auths) ==
    [coinbase |-> coinbase, transactions |-> txs, authorizations |-> auths]

\* Body::new
HonestBody(coinbase, txs) ==
    Body(coinbase, txs, Flatten([i \in 1..Len(txs) |-> HonestAuths(txs[i])]))

HonestHeader(body) ==
    LET m == modify_memforest(accumulator, body)
    IN  [prev_side_hash |-> tip, prev_main_hash |-> "main",
         merkle_root |-> compute_merkle_root(body),
         roots |-> get_roots(m.acc)]

Block(header, body) == [header |-> header, body |-> body]
HonestBlock(body) == Block(HonestHeader(body), body)

\* An input naming UTXO a and carrying the leaf hash of UTXO b.
Input(a, b) == << to_outpoint(a), leaf_hash(to_outpoint(b), utxos[b]) >>
\* An input naming a spent output.
SpentInput(s) == << to_outpoint(s), leaf_hash(to_outpoint(s), stxos[s].output) >>

U == DOMAIN utxos
Focus1 == IF U = {} THEN {} ELSE {CHOOSE a \in U : TRUE}
Focus2 == IF Cardinality(U) < 2 THEN Focus1
          ELSE Focus1 \cup {CHOOSE b \in U \ Focus1 : TRUE}
Valued == {a \in U : get_value(utxos[a]) > 0}
FocusValued == IF Valued = {} THEN {} ELSE {CHOOSE a \in Valued : TRUE}
FocusSpent == IF DOMAIN stxos = {} THEN {} ELSE {CHOOSE a \in DOMAIN stxos : TRUE}

\* Transactions a peer may submit in the current state.
SpendTxs ==
    {HonestTx(<<Input(a, a)>>, outs, None) : a \in U, outs \in {<<>>, <<OA>>}}
WrongHashTxs ==
    {HonestTx(<<Input(a, b)>>, <<>>, None) : a \in Focus1, b \in Focus2 \ Focus1}
TwoInputTxs ==
    {HonestTx(<<Input(a, a), Input(b, b)>>, <<>>, None) : a \in Focus1, b \in Focus2}
ZeroInputTxs ==
    {HonestTx(<<>>, <<OA>>, None), HonestTx(<<>>, <<>>, Some(B1)),
     HonestTx(<<>>, <<>>, Some(B2)), HonestTx(<<>>, <<>>, Some(B2Twice)),
     HonestTx(<<>>, <<>>, Some(B3))}
\* Transactions whose bundles differ in the anchor and in the spends flag.
AnchorTxs ==
    {HonestTx(<<>>, <<>>, Some(b)) : b \in {B4, B5, B6}}
MissingTxs ==
    {HonestTx(<<SpentInput(s)>>, <<>>, None) : s \in FocusSpent}
BadProofTxs ==
    {Tx(<<Input(a, a)>>, BadProof, <<>>, None) : a \in Focus1}

SingleTxs ==
    SpendTxs \cup WrongHashTxs \cup TwoInputTxs \cup ZeroInputTxs
    \cup MissingTxs \cup BadProofTxs

\* Pairs of transactions in one body: two spends (of one or of two UTXOs), a
\* spend of an output created earlier in the same body, and a spend next to
\* the transaction without inputs.
TxPairs ==
    {<<HonestTx(<<Input(a, a)>>, <<>>, None), HonestTx(<<Input(b, b)>>, <<OA>>, None)>> :
        a \in Focus1, b \in Focus2}
    \cup
    {LET t1 == HonestTx(<<>>, <<OA>>, None)
         o1 == Regular(txid(t1), 0)
     IN  <<t1, HonestTx(<<<<o1, leaf_hash(o1, OA)>>>>, <<>>, None)>>}
    \cup
    {<<HonestTx(<<Input(a, a)>>, <<>>, None), HonestTx(<<>>, <<OA>>, None)>> :
        a \in U}

\* Authorization lists that deviate from the honest one.
AuthDeviations(txs) ==
    LET honest == Flatten([i \in 1..Len(txs) |-> HonestAuths(txs[i])])
        n == Len(honest)
        last == txs[Len(txs)]
    IN  { SubSeq(honest, 1, n - 1),
          Append(honest, Auth("k2", last)),
          [honest EXCEPT ![1] = Auth(OtherKey(@.verifying_key), txs[1])],
          [honest EXCEPT ![1].signature = BadSignature] }

Bodies ==
    {HonestBody(cb, <<>>) : cb \in {<<>>, <<OA>>, <<OA, OA>>, <<OV>>}}
    \cup {HonestBody(<<>>, <<t>>) : t \in SingleTxs}
    \cup {HonestBody(<<>>, p) : p \in TxPairs}
    \cup UNION {{Body(<<>>, <<t>>, auths) : auths \in AuthDeviations(<<t>>)} :
                  t \in {HonestTx(<<Input(a, a)>>, <<>>, None) : a \in Focus1}}
    \cup {HonestBody(<<OMax, OV>>, p) :
            p \in {q \in TxPairs : Len(q[1].inputs) > 0 /\ q[1].inputs = q[2].inputs}}
    \cup UNION {{Body(<<>>, p, auths) : auths \in AuthDeviations(p)} :
                  p \in {q \in TxPairs : Len(q[1].inputs) > 0 /\ q[1].inputs # q[2].inputs}}
    \cup {HonestBody(<<OV>>, <<HonestTx(<<Input(a, a)>>, <<>>, None)>>) :
            a \in FocusValued}

BogusLeaf == leaf_hash(Coinbase(compute_merkle_root(Body(<<>>, <<>>, <<>>)), 9), OA)

\* Headers that deviate from the honest one in one field.
HeaderDeviations(body) ==
    LET h == HonestHeader(body)
    IN  { [h EXCEPT !.prev_side_hash = IF tip = None THEN Some(h) ELSE None],
          [h EXCEPT !.merkle_root = compute_merkle_root(Body(<<OV, OV>>, <<>>, <<>>))],
          [h EXCEPT !.roots = @ (+) SetToBag({BogusLeaf})] }

\* Blocks that fail several checks at once: a header wrong in two or three
\* fields over a coinbase that overflows, a spend of a missing output made
\* twice or carrying a bad signature, and a spend whose authorization is by a
\* stranger's key or carries a bad signature under a header with wrong roots.
FaultyBlocks ==
    LET over == HonestBody(<<OMax, OV>>, <<>>)
        h == HonestHeader(over)
        wrong_root == compute_merkle_root(Body(<<OV, OV>>, <<>>, <<>>))
        bogus == SetToBag({BogusLeaf})
    IN  {Block([h EXCEPT !.prev_side_hash = IF tip = None THEN Some(h) ELSE None,
                         !.merkle_root = wrong_root, !.roots = @ (+) bogus], over),
         Block([h EXCEPT !.merkle_root = wrong_root, !.roots = @ (+) bogus], over)}
        \cup {HonestBlock(HonestBody(cb, <<t, t>>)) :
                cb \in {<<>>, <<OMax, OV>>}, t \in MissingTxs}
        \cup {HonestBlock(Body(<<>>, <<t>>,
                               <<[verifying_key |-> "k1", signature |-> BadSignature]>>)) :
                t \in MissingTxs}
        \cup {LET t == HonestTx(<<Input(a, a)>>, <<>>, None)
                  body == Body(cb, <<t>>,
                               <<[verifying_key |-> k, signature |-> BadSignature]>>)
              IN  Block([HonestHeader(body) EXCEPT !.roots = @ (+) bogus], body) :
                a \in Focus1, cb \in {<<>>, <<OV>>}, k \in {"k1", "k2"}}

Blocks ==
    {HonestBlock(b) : b \in Bodies}
    \cup {Block(h, HonestBody(<<OA>>, <<>>)) :
            h \in HeaderDeviations(HonestBody(<<OA>>, <<>>))}

(***************************************************************************)
(* The state machine.  The ledger is empty after construction.  Each call  *)
(* runs in a write transaction that its caller commits when the call       *)
(* returns Ok and aborts when it returns Err; op holds the last call and   *)
(* its result until the caller has looked at it.  archive holds, for each  *)
(* connected block, what disconnect_tip is later called with.              *)
(***************************************************************************)
(***************************************************************************)
(* The mainchain task.  A handle holds a reference-counted JoinHandle of   *)
(* the task and a sender of the request channel; every clone holds both.   *)
(***************************************************************************)
\* Clones of the handle the model follows.
MaxHandles == 2
\* Requests the model sends.
MaxRequests == 3

\* MainchainTaskHandle::new: the task is spawned, one handle exists, both
\* channels are open and empty.  requests is the request channel, serving the
\* request the task has taken from it and not yet answered, responses what
\* was sent on the response stream and oneshots what was sent on oneshot
\* senders; accepted and produced record, in order, the requests the channel
\* took and the responses the task built.
MainchainTaskHandleNew ==
    [handles |-> [h \in 1..MaxHandles |-> IF h = 1 THEN "live" ELSE "none"],
     strong |-> 1,
     senders |-> 1,
     requests |-> <<>>,
     sent |-> 0,
     accepted |-> <<>>,
     serving |-> <<>>,
     produced |-> <<>>,
     response_rx |-> TRUE,
     responses |-> <<>>,
     oneshots |-> <<>>,
     task |-> "running",
     abort_called |-> FALSE]

\* MemPool::new: three empty databases.
MemPoolDefault ==
    [transactions |-> EmptyMap, spent_utxos |-> EmptyMap,
     used_nullifiers |-> EmptyMap]

Init ==
    /\ tip = None
    /\ height = None
    /\ utxos = EmptyMap
    /\ stxos = EmptyMap
    /\ accumulator = AccumulatorDefault
    /\ frontier = FrontierDefault
    /\ nullifiers = {}
    /\ historical_roots = EmptyMap
    /\ archive = <<>>
    /\ mempool = MemPoolDefault
    /\ node = MainchainTaskHandleNew
    /\ op = Idle

\* The caller commits the write transaction.
Commit(st) ==
    /\ tip' = st.tip
    /\ height' = st.height
    /\ utxos' = st.utxos
    /\ stxos' = st.stxos
    /\ accumulator' = st.accumulator
    /\ frontier' = st.frontier
    /\ nullifiers' = st.nullifiers
    /\ historical_roots' = st.historical_roots

\* The caller aborts the write transaction, or the call only reads.
Abort ==
    UNCHANGED <<tip, height, utxos, stxos, accumulator, frontier, nullifiers,
                historical_roots>>

ArchiveEntry(block) ==
    [header |-> block.header, body |-> block.body,
     prev_accumulator |-> accumulator, prev_frontier |-> frontier,
     accepted |-> validate(DB, block.header, block.body).ok]

\* A completed call: its name, its argument (a block or an authorized
\* transaction) and its result.
Result(kind, arg, r) ==
    [kind |-> kind, arg |-> arg, ok |-> r.ok, err |-> r.err]

\* A caller that commits the write transaction whatever the call returned.
FinishCommitAlways(kind, block, r, archived) ==
    /\ op' = Result(kind, block, r)
    /\ Commit(r.st)
    /\ archive' = IF r.ok THEN archived ELSE archive

\* The caller commits the write transaction of a call that returned Ok and
\* aborts the one of a call that returned Err.
Finish(kind, block, r, archived) ==
    /\ op' = Result(kind, block, r)
    /\ IF r.ok
       THEN Commit(r.st) /\ archive' = archived
       ELSE Abort /\ UNCHANGED archive

\* State::validate_block
ValidateBlock(block) ==
    /\ op = Idle
    /\ UNCHANGED <<mempool, node>>
    /\ op' = Result("validate_block", block,
                    validate(DB, block.header, block.body))
    /\ Abort
    /\ UNCHANGED archive

\* State::connect_block
ConnectBlock(block) ==
    /\ op = Idle
    /\ UNCHANGED <<mempool, node>>
    /\ Len(archive) < MaxHeight
    /\ Finish("connect_block", block, connect(DB, block.header, block.body),
              Append(archive, ArchiveEntry(block)))

\* State::prevalidate_block, then State::connect_prevalidated_block with its
\* result when it is Ok.
ConnectPrevalidated(block) ==
    /\ op = Idle
    /\ UNCHANGED <<mempool, node>>
    /\ Len(archive) < MaxHeight
    /\ LET Prevalidated(p) ==
               IF ~p.ok
               THEN /\ op' = Result("prevalidate_block", block, p)
                    /\ Abort
                    /\ UNCHANGED archive
               ELSE Finish("connect_prevalidated_block", block,
                           connect_prevalidated(DB, block.header, block.body,
                                                p.prevalidated),
                           Append(archive, ArchiveEntry(block)))
       IN  Prevalidated(prevalidate(DB, block.header, block.body))

\* State::disconnect_tip, called with an archived block and the accumulator
\* and frontier stored before the tip was connected.
DisconnectTip(i) ==
    /\ op = Idle
    /\ UNCHANGED <<mempool, node>>
    /\ Finish("disconnect_tip", Block(archive[i].header, archive[i].body),
              disconnect_tip(DB, archive[i].header, archive[i].body,
                             archive[Len(archive)].prev_accumulator,
                             Some(archive[Len(archive)].prev_frontier)),
              SubSeq(archive, 1, Len(archive) - 1))

\* State::validate_transaction
ValidateTransaction(at) ==
    /\ op = Idle
    /\ UNCHANGED <<mempool, node>>
    /\ op' = Result("validate_transaction", at, validate_transaction(DB, at))
    /\ Abort
    /\ UNCHANGED archive

\* The caller has looked at the result.
Return ==
    /\ op # Idle
    /\ UNCHANGED <<mempool, node>>
    /\ op' = Idle
    /\ Abort
    /\ UNCHANGED archive

AuthorizedTransaction(tx, auths) == [transaction |-> tx, authorizations |-> auths]

\* Authorized transactions a peer may submit to the mempool.
AuthorizedTransactions ==
    {AuthorizedTransaction(t, HonestAuths(t)) : t \in SingleTxs \cup AnchorTxs}
    \cup UNION {{AuthorizedTransaction(t, auths) : auths \in AuthDeviations(<<t>>) \cup {<<>>}} :
                  t \in {HonestTx(<<Input(a, a)>>, <<>>, None) : a \in Focus1}
                        \cup TwoInputTxs}

Next ==
    \/ op = Idle /\ \E block \in Blocks : ValidateBlock(block)
    \/ op = Idle /\ \E block \in Blocks : ConnectBlock(block)
    \/ op = Idle /\ \E block \in Blocks : ConnectPrevalidated(block)
    \/ op = Idle /\ \E i \in 1..Len(archive) : DisconnectTip(i)
    \/ op = Idle /\ \E at \in AuthorizedTransactions : ValidateTransaction(at)
    \/ Return

Spec == Init /\ [][Next]_vars

(***************************************************************************)
(* Properties of the ledger.                                               *)
(***************************************************************************)
\* Every connected block was accepted by validate in the state it was
\* connected on.
Validated == \A i \in 1..Len(archive) : archive[i].accepted

\* C1: after any sequence of successful connects and disconnects from the
\* empty ledger, no outpoint key is in utxos and in stxos at the same time;
\* stated here for the sequences whose blocks validate accepts.
C1_UtxosStxosDisjoint ==
    Validated => DOMAIN utxos \cap DOMAIN stxos = {}

\* Disconnecting a block right after connecting it on s0, with the accumulator
\* and frontier of s0, succeeds and restores s0.
Restores(s0, block) ==
    LET Back(d) ==
            /\ d.ok
            /\ d.st.tip = s0.tip
            /\ d.st.height = s0.height
            /\ d.st.utxos = s0.utxos
            /\ d.st.stxos = s0.stxos
            /\ d.st.nullifiers = s0.nullifiers
            /\ d.st.historical_roots = s0.historical_roots
            /\ get_roots(d.st.accumulator) = get_roots(s0.accumulator)
        Undo(c) ==
            c.ok => Back(disconnect_tip(c.st, block.header, block.body,
                                        s0.accumulator, Some(s0.frontier)))
    IN  Undo(connect(s0, block.header, block.body))

\* C2: for every state S0 and every block that connects successfully on S0,
\* disconnect_tip with the block and the accumulator and frontier of S0
\* succeeds and yields S0 on tip, height, utxos, stxos, nullifiers,
\* historical_roots and the accumulator roots; stated here for the blocks
\* validate accepts, on states reached through such blocks.
C2_ConnectDisconnectRestores ==
    (op = Idle /\ Validated) =>
        \A block \in Blocks :
            validate(DB, block.header, block.body).ok => Restores(DB, block)

\* C3: right after every successful connect_block or connect_prevalidated of
\* a block, the roots of the stored accumulator are the roots of its header.
C3_RootsMatchHeader ==
    (op.kind \in {"connect_block", "connect_prevalidated_block"} /\ op.ok)
        => get_roots(accumulator) = op.arg.header.roots

\* The leaves of the UTXO set, one per UTXO.
UtxoLeaves ==
    SetToBag({leaf_hash(to_outpoint(k), utxos[k]) : k \in DOMAIN utxos})

\* The outpoints a body creates: its coinbase outputs, then the outputs of
\* its transactions.
CreatedOutpoints(body) ==
    LET merkle_root == compute_merkle_root(body)
        txs == body.transactions
    IN  [vout \in 1..Len(body.coinbase) |-> Coinbase(merkle_root, vout - 1)]
        \o Flatten([t \in 1..Len(txs) |->
               [vout \in 1..Len(txs[t].outputs) |->
                   Regular(txid(txs[t]), vout - 1)]])

\* No outpoint is created by two outputs of the connected chain.
NoOutpointCreatedTwice ==
    LET created == Flatten([i \in 1..Len(archive) |->
                       CreatedOutpoints(archive[i].body)])
    IN  \A i, j \in 1..Len(created) : created[i] = created[j] => i = j

\* C4: after any sequence of blocks accepted by validate and connected, and
\* of disconnects, the multiset of leaves of the stored accumulator is the
\* set of leaves of the UTXOs, one leaf per UTXO. It is stated for the
\* chains that create no outpoint twice.
C4_LeavesTrackUtxos ==
    (Validated /\ NoOutpointCreatedTwice) => accumulator = UtxoLeaves

\* C5: every input (outpoint, utxo_hash) of a block accepted by validate
\* carries the leaf hash of the UTXO stored under its outpoint.
C5_InputHashesMatch ==
    (op.kind = "validate_block" /\ op.ok) =>
        \A t \in 1..Len(op.arg.body.transactions) :
            \A i \in 1..Len(op.arg.body.transactions[t].inputs) :
                LET input == op.arg.body.transactions[t].inputs[i]
                IN  input[2] = leaf_hash(input[1], utxos[from_outpoint(input[1])])

\* C6: connect_block fails on every block on which validate fails.
C6_ConnectValidates ==
    [][(op'.kind = "connect_block"
        /\ ~validate(DB, op'.arg.header, op'.arg.body).ok) => ~op'.ok]_vars

\* connect_block has failed on a missing UTXO, and the ledger as its write
\* transaction held it at the return differs from the ledger before the call.
WroteBeforeFailing ==
    /\ op.kind = "connect_block"
    /\ op.err = "NoUtxo"
    /\ connect(DB, op.arg.header, op.arg.body).st # DB

\* C7: when connect, connect_prevalidated or disconnect_tip returns an error,
\* tip, height, utxos, stxos, the accumulator, the frontier, nullifiers and
\* historical_roots are as before the call.
C7_AllOrNothing ==
    [][(op'.kind \in {"connect_block", "connect_prevalidated_block",
                      "disconnect_tip"} /\ ~op'.ok)
        => UNCHANGED <<tip, height, utxos, stxos, accumulator, frontier,
                       nullifiers, historical_roots>>]_vars

\* A failed connect_block whose write transaction held writes is in op, and
\* the ledger is the one before the call.
C7_Witness == WroteBeforeFailing

\* The outpoints of all inputs of a body, in order.
InputOutpoints(body) ==
    Flatten([t \in 1..Len(body.transactions) |->
        [i \in 1..Len(body.transactions[t].inputs) |->
            body.transactions[t].inputs[i][1]]])

\* One outpoint occurs more than once among the inputs of the body.
SpendsTwice(body) ==
    \E i, j \in 1..Len(InputOutpoints(body)) :
        i < j /\ InputOutpoints(body)[i] = InputOutpoints(body)[j]

NextHeight(st) == IF st.height = None THEN 0 ELSE Unwrap(st.height) + 1

\* The header link, limits, merkle root and UTXO resolution checks pass.
ListedChecksPass(st, block) ==
    /\ block.header.prev_side_hash = st.tip
    /\ Len(block.body.authorizations) <= body_sigops_limit(NextHeight(st))
    /\ object_length(block.body) <= body_size_limit(NextHeight(st))
    /\ compute_merkle_root(block.body) = block.header.merkle_root
    /\ fill_all(st, block.body.transactions, 1, <<>>).ok

\* The sum of the coinbase values does not overflow.
CoinbaseSums(body) ==
    coinbase_loop(body.coinbase, compute_merkle_root(body), 1, 0,
                  AccumulatorDiffDefault).ok

\* The error of the checks of validate or prevalidate in a completed call.
CheckErr(o) == IF o.kind = "connect_prevalidated_block" THEN "" ELSE o.err

BlockChecked(o) ==
    o.kind \in {"validate_block", "prevalidate_block",
                "connect_prevalidated_block"}

\* C8: validate and prevalidate return UtxoDoubleSpent for every body in which
\* one outpoint occurs more than once among all inputs when the header link,
\* limits, merkle root and UTXO resolution checks pass and the coinbase sum
\* does not overflow, and never for a body whose input outpoints are pairwise
\* distinct.
C8_DoubleSpendRejected ==
    [][BlockChecked(op') =>
        /\ (/\ SpendsTwice(op'.arg.body)
            /\ ListedChecksPass(DB, op'.arg)
            /\ CoinbaseSums(op'.arg.body))
           => CheckErr(op') = "UtxoDoubleSpent"
        /\ ~SpendsTwice(op'.arg.body) => CheckErr(op') # "UtxoDoubleSpent"]_vars

\* prevalidate has returned UtxoDoubleSpent for a body whose two transactions
\* spend one outpoint.
C8_Witness ==
    /\ op.kind = "prevalidate_block"
    /\ op.err = "UtxoDoubleSpent"
    /\ Len(op.arg.body.transactions) = 2
    /\ op.arg.body.transactions[1].inputs[1][1]
         = op.arg.body.transactions[2].inputs[1][1]

\* C8 as first stated: UtxoDoubleSpent for every body in which one outpoint
\* occurs more than once when the header link, limits, merkle root and UTXO
\* resolution checks pass.
C8_DoubleSpendRejectedAsListed ==
    [][BlockChecked(op') =>
        ((SpendsTwice(op'.arg.body) /\ ListedChecksPass(DB, op'.arg))
            => CheckErr(op') = "UtxoDoubleSpent")]_vars

\* The block of the completed call was accepted by validate or prevalidate.
AcceptedBlock(o) ==
    \/ o.kind = "validate_block" /\ o.ok
    \/ o.kind = "connect_prevalidated_block"

\* C9: every block accepted by validate or prevalidate has as many
\* authorizations as inputs, and at every position of the flattened input list
\* the address of the authorization's verifying key is the address of the UTXO
\* the input spends.
C9_AuthorizationsMatchInputs ==
    [][AcceptedBlock(op') =>
        /\ Len(op'.arg.body.authorizations) = calculate_total_inputs(op'.arg.body)
        /\ \A i \in 1..Len(InputOutpoints(op'.arg.body)) :
              get_address(op'.arg.body.authorizations[i].verifying_key)
                = utxos[from_outpoint(InputOutpoints(op'.arg.body)[i])].address]_vars

\* validate has accepted a block with two inputs.
C9_Witness ==
    /\ op.kind = "validate_block"
    /\ op.ok
    /\ calculate_total_inputs(op.arg.body) = 2

\* C10: every authorized transaction accepted by validate_transaction has one
\* authorization per input, with the address of the UTXO the input spends.
C10_OneAuthorizationPerInput ==
    (op.kind = "validate_transaction" /\ op.ok) =>
        /\ Len(op.arg.authorizations) = Len(op.arg.transaction.inputs)
        /\ \A i \in 1..Len(op.arg.transaction.inputs) :
              get_address(op.arg.authorizations[i].verifying_key)
                = utxos[from_outpoint(op.arg.transaction.inputs[i][1])].address

(***************************************************************************)
(* Value.                                                                  *)
(***************************************************************************)
RECURSIVE SeqSum(_, _)
SeqSum(values, i) ==
    IF i > Len(values) THEN 0 ELSE values[i] + SeqSum(values, i + 1)

RECURSIVE SumValues(_, _)
SumValues(m, keys) ==
    IF keys = {} THEN 0
    ELSE LET Rest(k) == get_value(m[k]) + SumValues(m, keys \ {k})
         IN  Rest(CHOOSE k \in keys : TRUE)

\* The total value held in a UTXO set.
TotalValue(m) == SumValues(m, DOMAIN m)

CoinbaseValue(body) ==
    SeqSum([i \in 1..Len(body.coinbase) |-> get_value(body.coinbase[i])], 1)

\* Every input of the body names a UTXO of the ledger.
InputsResolve(st, body) ==
    \A i \in 1..Len(InputOutpoints(body)) :
        from_outpoint(InputOutpoints(body)[i]) \in DOMAIN st.utxos

\* The fee of a transaction: the value it spends minus the value it creates.
Fee(st, tx) ==
    SeqSum([i \in 1..Len(tx.inputs) |->
               get_value(st.utxos[from_outpoint(tx.inputs[i][1])])], 1)
    - SeqSum([i \in 1..Len(tx.outputs) |-> get_value(tx.outputs[i])], 1)

TotalFees(st, body) ==
    SeqSum([t \in 1..Len(body.transactions) |-> Fee(st, body.transactions[t])], 1)

NoBundle(body) ==
    \A t \in 1..Len(body.transactions) :
        body.transactions[t].orchard_bundle = None

\* The errors of the checks that validate makes before it compares the
\* coinbase value with the fees, and of that comparison.
UpToFeesErrors ==
    {"InvalidHeader::PrevSideHash", "TooManySigops", "BodyTooLarge",
     "InvalidBody", "AmountOverflow", "NoUtxo", "UtxoDoubleSpent",
     "NotEnoughValueIn", "UtreexoProofFailed", "NotEnoughFees"}

\* A completed call that took a block.
BlockCall(o) ==
    o.kind \in {"validate_block", "prevalidate_block", "connect_block",
                "connect_prevalidated_block"}

BodyNullifiers(body) ==
    Flatten([t \in 1..Len(body.transactions) |->
        IF IsSome(body.transactions[t].orchard_bundle)
        THEN Unwrap(body.transactions[t].orchard_bundle).nullifiers
        ELSE <<>>])

\* The nullifiers of the bundles of the connected blocks.
ConnectedNullifiers ==
    Flatten([i \in 1..Len(archive) |-> BodyNullifiers(archive[i].body)])

NoRepeat(ns) == \A i, j \in 1..Len(ns) : ns[i] = ns[j] => i = j

NullifiersOfChain ==
    /\ nullifiers = {ConnectedNullifiers[i] : i \in 1..Len(ConnectedNullifiers)}
    /\ NoRepeat(ConnectedNullifiers)

\* The body reveals a stored nullifier, or one nullifier twice.
ReusesNullifier(st, body) ==
    \/ \E i \in 1..Len(BodyNullifiers(body)) :
          BodyNullifiers(body)[i] \in st.nullifiers
    \/ ~NoRepeat(BodyNullifiers(body))

ConnectedBundles ==
    UNION {{Unwrap(archive[i].body.transactions[t].orchard_bundle) :
              t \in {u \in 1..Len(archive[i].body.transactions) :
                       IsSome(archive[i].body.transactions[u].orchard_bundle)}} :
           i \in 1..Len(archive)}

\* C14: every orchard bundle with spends enabled of a connected block has
\* its anchor as a key of historical_roots, also when every connected block
\* was one that validate accepts.
C14_ConnectedAnchorsKnown ==
    Validated => \A b \in ConnectedBundles :
        b.spends_enabled => b.anchor \in DOMAIN historical_roots

\* The anchor rule as the specification states it: the empty-tree anchor is
\* allowed with spends disabled, any other anchor if it is a key of
\* historical_roots.
AnchorAllowed(st, bundle) ==
    IF bundle.anchor = empty_tree
    THEN ~bundle.spends_enabled
    ELSE bundle.anchor \in DOMAIN st.historical_roots

AnchorErrors == {"Orchard::EmptyAnchor", "Orchard::InvalidAnchor"}

\* C15: validate_transaction, when the inputs resolve and the addresses
\* match, refuses the anchor of a bundle exactly if it is neither the
\* empty-tree anchor with spends disabled nor a key of historical_roots:
\* EmptyAnchor for the empty-tree anchor with spends enabled, InvalidAnchor
\* for any other unknown anchor.
C15_AnchorRule ==
    ( /\ op.kind = "validate_transaction"
      /\ IsSome(op.arg.transaction.orchard_bundle)
      /\ op.err \notin {"NoUtxo", "WrongPubKeyForAddress"} )
    => LET bundle == Unwrap(op.arg.transaction.orchard_bundle)
       IN  /\ AnchorAllowed(DB, bundle) <=> op.err \notin AnchorErrors
           /\ (bundle.anchor = empty_tree /\ bundle.spends_enabled)
                 => op.err = "Orchard::EmptyAnchor"
           /\ (bundle.anchor # empty_tree /\ ~AnchorAllowed(DB, bundle))
                 => op.err = "Orchard::InvalidAnchor"

(***************************************************************************)
(* The mempool: transactions by txid, and for each outpoint spent and each *)
(* nullifier revealed by a stored transaction the txid of that transaction.*)
(* Each operator returns the three databases as the call leaves them, the  *)
(* writes made before an error included.                                   *)
(***************************************************************************)
MemOk(pool) == [ok |-> TRUE, err |-> "", pool |-> pool, info |-> <<>>]
MemErr(e, pool, info) == [ok |-> FALSE, err |-> e, pool |-> pool, info |-> info]

\* The nullifiers of a transaction's bundle, in order; none without a bundle.
tx_nullifiers(tx) ==
    IF IsSome(tx.orchard_bundle) THEN Unwrap(tx.orchard_bundle).nullifiers
    ELSE <<>>

\* A proof of the targets; an error when the accumulator lacks one of them.
try_prove(acc, targets) ==
    IF SeqToBag(targets) \sqsubseteq acc
    THEN [ok |-> TRUE, proof |-> prove(targets)]
    ELSE [ok |-> FALSE, proof |-> BadProof]

\* A lookup that finds no entry.
spent_lookup_blind(spent, outpoint) == FALSE
\* spent_utxos.try_get(outpoint).is_some()
utxo_already_spent(spent, outpoint) == outpoint \in DOMAIN spent

\* MemPool::put, the loop over the inputs.
RECURSIVE put_spent_utxos(_, _, _, _)
put_spent_utxos(pool, id, inputs, i) ==
    IF i > Len(inputs) THEN MemOk(pool)
    ELSE IF utxo_already_spent(pool.spent_utxos, inputs[i][1])
    THEN MemErr("UtxoDoubleSpent", pool, [txid |-> id])
    ELSE put_spent_utxos(
             [pool EXCEPT !.spent_utxos = MapPut(@, inputs[i][1], id)],
             id, inputs, i + 1)

\* The error with the two txids exchanged.
nullifier_double_spent_swapped(id, nullifier, old) ==
    [new_txid |-> old, nullifier |-> nullifier, old_txid |-> id]
\* Error::NullifierDoubleSpent
nullifier_double_spent(id, nullifier, old) ==
    [new_txid |-> id, nullifier |-> nullifier, old_txid |-> old]

\* MemPool::put, the loop over the nullifiers of the bundle.
RECURSIVE put_used_nullifiers(_, _, _, _)
put_used_nullifiers(pool, id, ns, i) ==
    IF i > Len(ns) THEN MemOk(pool)
    ELSE IF ns[i] \in DOMAIN pool.used_nullifiers
    THEN MemErr("NullifierDoubleSpent", pool,
                nullifier_double_spent(id, ns[i], pool.used_nullifiers[ns[i]]))
    ELSE put_used_nullifiers(
             [pool EXCEPT !.used_nullifiers = MapPut(@, ns[i], id)],
             id, ns, i + 1)

\* MemPool::put
put(pool, at) ==
    LET id == txid(at.transaction)
        Nullified(r) ==
            IF ~r.ok THEN r
            ELSE MemOk([r.pool EXCEPT !.transactions = MapPut(@, id, at)])
        Spent(r) ==
            IF ~r.ok THEN r
            ELSE Nullified(put_used_nullifiers(r.pool, id,
                                               tx_nullifiers(at.transaction), 1))
    IN  IF id \in DOMAIN pool.transactions THEN MemOk(pool)
        ELSE Spent(put_spent_utxos(pool, id, at.transaction.inputs, 1))

\* The map without the entries of the listed keys.
RECURSIVE delete_keys(_, _)
delete_keys(m, keys) ==
    IF keys = <<>> THEN m ELSE delete_keys(MapDelete(m, Head(keys)), Tail(keys))

\* A delete that schedules no children.
delete_no_children(spent, id, outputs) == <<>>
\* MemPool::delete, the children found through spent_utxos, by vout.
delete_children(spent, id, outputs) ==
    LET found == [vout \in 1..Len(outputs) |->
                     IF Regular(id, vout - 1) \in DOMAIN spent
                     THEN <<spent[Regular(id, vout - 1)]>> ELSE <<>>]
    IN  Flatten(found)

\* MemPool::delete, the loop over pending_deletes.
RECURSIVE delete_pending(_, _)
delete_pending(pool, pending) ==
    IF pending = <<>> THEN pool
    ELSE IF Head(pending) \notin DOMAIN pool.transactions
    THEN delete_pending(pool, Tail(pending))
    ELSE LET id == Head(pending)
             tx == pool.transactions[id].transaction
             Unspent(spent) ==
                 delete_pending(
                     [transactions |-> MapDelete(pool.transactions, id),
                      spent_utxos |-> spent,
                      used_nullifiers |->
                          delete_keys(pool.used_nullifiers, tx_nullifiers(tx))],
                     Tail(pending) \o delete_children(spent, id, tx.outputs))
         IN  Unspent(delete_keys(pool.spent_utxos,
                                 [i \in 1..Len(tx.inputs) |-> tx.inputs[i][1]]))

\* MemPool::delete
delete(pool, id) == MemOk(delete_pending(pool, <<id>>))

\* MemPool::regenerate_proofs.  When a proof cannot be made the call returns
\* the error; the proofs written before it go with the write transaction.
regenerate_proofs(pool, acc) ==
    LET Targets(at) ==
            [i \in 1..Len(at.transaction.inputs) |-> at.transaction.inputs[i][2]]
        ids == DOMAIN pool.transactions
    IN  IF \E id \in ids : ~try_prove(acc, Targets(pool.transactions[id])).ok
        THEN MemErr("Utreexo", pool, <<>>)
        ELSE MemOk([pool EXCEPT !.transactions =
                        [id \in ids |->
                            [pool.transactions[id] EXCEPT !.transaction.proof =
                                try_prove(acc, Targets(pool.transactions[id])).proof]]])

\* An eviction that leaves the holders of the nullifiers stored.
evict_nullifiers_skipped(pool, ns) == pool

\* MemPool::connect_block, the eviction of the holders of a block
\* transaction's nullifiers.
RECURSIVE evict_nullifiers(_, _)
evict_nullifiers(pool, ns) ==
    IF ns = <<>> THEN pool
    ELSE IF Head(ns) \in DOMAIN pool.used_nullifiers
    THEN evict_nullifiers(delete(pool, pool.used_nullifiers[Head(ns)]).pool,
                          Tail(ns))
    ELSE evict_nullifiers(pool, Tail(ns))

\* MemPool::connect_block, the loop over the transactions of the body.
RECURSIVE evict_transactions(_, _)
evict_transactions(pool, txs) ==
    IF txs = <<>> THEN pool
    ELSE evict_transactions(
             evict_nullifiers(delete(pool, txid(Head(txs))).pool,
                              tx_nullifiers(Head(txs))),
             Tail(txs))

\* MemPool::connect_block
connect_block(pool, acc, body) ==
    regenerate_proofs(evict_transactions(pool, body.transactions), acc)

(***************************************************************************)
(* Transactions and blocks submitted to a node with a mempool.             *)
(***************************************************************************)
\* The block that creates the two outputs the mempool transactions spend.
FundingBody == Body(<<OA, OA>>, <<>>, <<>>)
U0 == Coinbase(compute_merkle_root(FundingBody), 0)
U1 == Coinbase(compute_merkle_root(FundingBody), 1)
Spend(outpoint) == << outpoint, leaf_hash(outpoint, OA) >>

\* A bundle that reveals two nullifiers, the second one that of B1.
B21 == [B1 EXCEPT !.nullifiers = <<"n2", "n1">>, !.cmxs = <<>>]

\* Two transactions that spend U0, a child and a grandchild of the first.
T1 == HonestTx(<<Spend(U0)>>, <<OA>>, None)
T2 == HonestTx(<<Spend(U0)>>, <<>>, None)
T1Child == HonestTx(<<Spend(Regular(txid(T1), 0))>>, <<OA>>, None)
T1GrandChild == HonestTx(<<Spend(Regular(txid(T1Child), 0))>>, <<>>, None)
\* T1 with a proof that proves nothing.
T1Unproved == [T1 EXCEPT !.proof = BadProof]
\* Transactions that reveal n1: one that spends U1 and one without inputs.
T3 == HonestTx(<<Spend(U1)>>, <<>>, Some(B1))
T4 == HonestTx(<<>>, <<OA>>, Some(B1))
\* A transaction that spends U1 and then U0.
T5 == HonestTx(<<Spend(U1), Spend(U0)>>, <<>>, None)
\* A transaction that spends U1 and reveals n2 and then n1.
T6 == HonestTx(<<Spend(U1)>>, <<>>, Some(B21))
\* Transactions that name one nullifier and one outpoint twice.
T7 == HonestTx(<<>>, <<>>, Some(B2Twice))
T8 == HonestTx(<<Spend(U0), Spend(U0)>>, <<>>, None)
\* A transaction that reveals n2 twice and then n1.
T9 == HonestTx(<<>>, <<>>, Some([B21 EXCEPT !.nullifiers = <<"n2", "n2", "n1">>]))

MemPoolTxs == {T1, T2, T1Child, T1GrandChild, T1Unproved, T3, T4, T5, T6, T7, T8, T9}

\* Authorized transactions a peer or the wallet may submit.
MemPoolTransactions ==
    {AuthorizedTransaction(t, [i \in 1..Len(t.inputs) |-> Auth("k1", t)]) :
        t \in MemPoolTxs}
MemPoolTxids == {txid(t) : t \in MemPoolTxs}

\* Bodies of the blocks the node connects while the mempool is in use.
MemPoolBodies ==
    {FundingBody} \cup
    {Body(<<>>, <<t>>, [i \in 1..Len(t.inputs) |-> Auth("k1", t)]) :
        t \in {T1, T2, T4}}

(***************************************************************************)
(* The node with a mempool.  The ledger advances by connected blocks; the  *)
(* mempool is written by put, delete, connect_block and regenerate_proofs, *)
(* each in a write transaction that its caller commits when the call       *)
(* returns Ok and aborts when it returns Err.                              *)
(***************************************************************************)
MemResult(kind, arg, r) ==
    [kind |-> kind, arg |-> arg, ok |-> r.ok, err |-> r.err, info |-> r.info]

\* A caller that commits the write transaction whatever the call returned.
MemFinishCommitAlways(kind, arg, r) ==
    /\ op' = MemResult(kind, arg, r)
    /\ mempool' = r.pool

\* The caller commits the write transaction of a call that returned Ok and
\* aborts the one of a call that returned Err.
MemFinish(kind, arg, r) ==
    /\ op' = MemResult(kind, arg, r)
    /\ mempool' = IF r.ok THEN r.pool ELSE mempool

\* MemPool::put
MemPoolPut(at) ==
    /\ op = Idle
    /\ UNCHANGED node
    /\ MemFinish("put", at, put(mempool, at))
    /\ Abort
    /\ UNCHANGED archive

\* Admission: State::validate_transaction, then MemPool::put when it is Ok.
Admission(at) ==
    /\ op = Idle
    /\ UNCHANGED node
    /\ LET Validated_(v) ==
               IF ~v.ok
               THEN /\ op' = [kind |-> "admission", arg |-> at, ok |-> FALSE,
                              err |-> v.err, info |-> <<>>]
                    /\ UNCHANGED mempool
               ELSE MemFinish("admission", at, put(mempool, at))
       IN  Validated_(validate_transaction(DB, at))
    /\ Abort
    /\ UNCHANGED archive

\* MemPool::delete; the result is kept with the txids the call removed.
MemPoolDelete(id) ==
    /\ op = Idle
    /\ UNCHANGED node
    /\ LET Deleted(r) ==
               MemFinish("delete", id,
                         [r EXCEPT !.info = DOMAIN mempool.transactions
                                                \ DOMAIN r.pool.transactions])
       IN  Deleted(delete(mempool, id))
    /\ Abort
    /\ UNCHANGED archive

\* MemPool::connect_block; the result is kept with the txids the call
\* removed.
MemPoolConnectBlock(body) ==
    /\ op = Idle
    /\ UNCHANGED node
    /\ LET Connected(r) ==
               MemFinish("mempool_connect_block", body,
                         [r EXCEPT !.info = DOMAIN mempool.transactions
                                                \ DOMAIN r.pool.transactions])
       IN  Connected(connect_block(mempool, accumulator, body))
    /\ Abort
    /\ UNCHANGED archive

\* MemPool::regenerate_proofs; the result is kept with the txids of the
\* transactions whose proof the call replaced by a different one.
MemPoolRegenerateProofs ==
    /\ op = Idle
    /\ UNCHANGED node
    /\ LET Regenerated(r) ==
               MemFinish("regenerate_proofs", <<>>,
                         [r EXCEPT !.info =
                             {id \in DOMAIN mempool.transactions :
                                 r.pool.transactions[id] # mempool.transactions[id]}])
       IN  Regenerated(regenerate_proofs(mempool, accumulator))
    /\ Abort
    /\ UNCHANGED archive

MemPoolNext ==
    \/ op = Idle /\ \E body \in MemPoolBodies : ConnectBlock(HonestBlock(body))
    \/ op = Idle /\ \E at \in MemPoolTransactions : MemPoolPut(at)
    \/ op = Idle /\ \E at \in MemPoolTransactions : Admission(at)
    \/ op = Idle /\ \E id \in MemPoolTxids : MemPoolDelete(id)
    \/ op = Idle /\ \E body \in MemPoolBodies : MemPoolConnectBlock(body)
    \/ MemPoolRegenerateProofs
    \/ Return

MemPoolSpec == Init /\ [][MemPoolNext]_vars

(***************************************************************************)
(* Properties of the mempool.                                              *)
(***************************************************************************)
RevealsStoredNullifier(tx) ==
    \E i \in 1..Len(tx_nullifiers(tx)) : tx_nullifiers(tx)[i] \in nullifiers

\* C13: admission (validate_transaction, then MemPool::put) fails for every
\* transaction whose bundle reveals a nullifier that the ledger already
\* stores in orchard.nullifiers.
C13_AdmissionRejectsStoredNullifier ==
    (op.kind = "admission" /\ RevealsStoredNullifier(op.arg.transaction))
        => ~op.ok

StoredTxids == DOMAIN mempool.transactions
InputOutpointsOf(pool, id) ==
    {pool.transactions[id].transaction.inputs[i][1] :
        i \in 1..Len(pool.transactions[id].transaction.inputs)}

\* C16: after any sequence of put, delete, connect_block and
\* regenerate_proofs, every input outpoint of every stored transaction is
\* recorded in spent_utxos under that transaction's txid, and no two stored
\* transactions spend the same outpoint.
C16_SpentUtxosIndex ==
    /\ \A id \in StoredTxids :
           \A outpoint \in InputOutpointsOf(mempool, id) :
               /\ outpoint \in DOMAIN mempool.spent_utxos
               /\ mempool.spent_utxos[outpoint]
                      = txid(mempool.transactions[id].transaction)
    /\ \A id1 \in StoredTxids : \A id2 \in StoredTxids \ {id1} :
           InputOutpointsOf(mempool, id1) \cap InputOutpointsOf(mempool, id2) = {}

C16_Witness ==
    /\ op.kind = "delete"
    /\ Cardinality(StoredTxids) >= 2
    /\ Cardinality(DOMAIN mempool.spent_utxos) >= 2

PutCall(o) == o.kind \in {"put", "admission"}
DoubleSpendErrors == {"UtxoDoubleSpent", "NullifierDoubleSpent"}

\* C17: when MemPool::put returns UtxoDoubleSpent or NullifierDoubleSpent,
\* transactions, spent_utxos and used_nullifiers are exactly as they were
\* before the call, the entries of the inputs and nullifiers processed before
\* the conflict included.
C17_FailedPutLeavesNoTrace ==
    [][(PutCall(op') /\ op'.err \in DoubleSpendErrors) => mempool' = mempool]_vars

\* A put that had written entries when it met the conflict.
C17_Witness ==
    /\ op.kind = "put"
    /\ op.err \in DoubleSpendErrors
    /\ put(mempool, op.arg).pool # mempool

NullifiersAbsent(pool, tx) ==
    \A i \in 1..Len(tx_nullifiers(tx)) :
        tx_nullifiers(tx)[i] \notin DOMAIN pool.used_nullifiers

\* The call returned NullifierDoubleSpent for a nullifier of tx, with the
\* txid of tx as new_txid and holder as old_txid.
ReportsCollision(o, tx, holder) ==
    /\ o.err = "NullifierDoubleSpent"
    /\ o.info.new_txid = txid(tx)
    /\ \E i \in 1..Len(tx_nullifiers(tx)) : tx_nullifiers(tx)[i] = o.info.nullifier
    /\ o.info.old_txid = holder

\* The statement of C18 as written: every put either finds no nullifier of
\* the bundle in used_nullifiers, or returns NullifierDoubleSpent with the
\* txid of T and the txid recorded for the colliding nullifier.
C18_AsWritten ==
    [][op'.kind = "put" =>
        \/ NullifiersAbsent(mempool, op'.arg.transaction)
        \/ /\ op'.err = "NullifierDoubleSpent"
           /\ op'.info.nullifier \in DOMAIN mempool.used_nullifiers
           /\ ReportsCollision(op', op'.arg.transaction,
                               mempool.used_nullifiers[op'.info.nullifier])]_vars

\* put reaches the nullifiers: the txid is not stored, and no input outpoint
\* is in spent_utxos or named twice by the transaction.
ReachesNullifiers(pool, tx) ==
    /\ txid(tx) \notin DOMAIN pool.transactions
    /\ \A i \in 1..Len(tx.inputs) :
          /\ tx.inputs[i][1] \notin DOMAIN pool.spent_utxos
          /\ \A j \in 1..(i - 1) : tx.inputs[j][1] # tx.inputs[i][1]

\* C18: for every put(T) that reaches the nullifiers (T is not stored and
\* none of its inputs is spent in the mempool or repeated): either every
\* nullifier of T's bundle is absent from used_nullifiers before the call and
\* the bundle repeats none, and put returns Ok; or put returns
\* NullifierDoubleSpent with new_txid the txid of T and old_txid the txid
\* recorded for the colliding nullifier, which is the txid of T itself when
\* the collision is with an earlier nullifier of the same bundle.
C18_NullifierCollisionReported ==
    [][(op'.kind = "put" /\ ReachesNullifiers(mempool, op'.arg.transaction)) =>
        LET tx == op'.arg.transaction
        IN  IF NullifiersAbsent(mempool, tx) /\ NoRepeat(tx_nullifiers(tx))
            THEN op'.ok
            ELSE ReportsCollision(op', tx,
                     IF op'.info.nullifier \in DOMAIN mempool.used_nullifiers
                     THEN mempool.used_nullifiers[op'.info.nullifier]
                     ELSE txid(tx))]_vars

\* A put rejected for a nullifier that another stored transaction holds.
C18_Witness ==
    /\ op.kind = "put"
    /\ op.err = "NullifierDoubleSpent"
    /\ op.info.old_txid # op.info.new_txid
    /\ op.info.old_txid \in StoredTxids

\* The stored transactions that spend an output of a transaction in ids.
Spenders(pool, ids) ==
    {c \in DOMAIN pool.transactions :
        \E o \in InputOutpointsOf(pool, c) :
            /\ o.kind = "Regular"
            /\ o.hash \in ids
            /\ o.vout < Len(pool.transactions[o.hash].transaction.outputs)}

\* The stored transactions of ids and all that transitively spend an output
\* of one of them.
RECURSIVE WithDescendants(_, _)
WithDescendants(pool, ids) ==
    LET Grown(more) == IF more \subseteq ids THEN ids
                       ELSE WithDescendants(pool, ids \cup more)
    IN  Grown(Spenders(pool, ids))

\* The stored transactions that spend an outpoint which a different
\* transaction of the body spends.
ConflictingWith(pool, body) ==
    {id \in DOMAIN pool.transactions :
        \E k \in 1..Len(body.transactions) :
            /\ txid(body.transactions[k]) # id
            /\ \E i \in 1..Len(body.transactions[k].inputs) :
                   body.transactions[k].inputs[i][1] \in InputOutpointsOf(pool, id)}

\* C19: when the mempool holds a transaction T1 that spends outpoint U and
\* MemPool::connect_block is called with a body that contains a different
\* transaction T2 that spends U, the call succeeds, and afterwards T1 and
\* every stored transaction that transitively spends an output of T1 are
\* absent from the mempool.
C19_ConflictingSpendersEvicted ==
    [][(op'.kind = "mempool_connect_block"
        /\ ConflictingWith(mempool, op'.arg) # {}) =>
          /\ op'.ok
          /\ WithDescendants(mempool, ConflictingWith(mempool, op'.arg))
                 \cap DOMAIN mempool'.transactions = {}]_vars

Restrict(m, keys) == [k \in (DOMAIN m) \cap keys |-> m[k]]
NullifiersOf(pool, id) ==
    {tx_nullifiers(pool.transactions[id].transaction)[i] :
        i \in 1..Len(tx_nullifiers(pool.transactions[id].transaction))}

\* The mempool without the transactions of removed and without the
\* spent_utxos and used_nullifiers entries of their inputs and nullifiers.
Without(pool, removed) ==
    [transactions |->
         Restrict(pool.transactions, DOMAIN pool.transactions \ removed),
     spent_utxos |->
         Restrict(pool.spent_utxos,
                  DOMAIN pool.spent_utxos
                      \ UNION {InputOutpointsOf(pool, r) : r \in removed}),
     used_nullifiers |->
         Restrict(pool.used_nullifiers,
                  DOMAIN pool.used_nullifiers
                      \ UNION {NullifiersOf(pool, r) : r \in removed})]

\* C20: after MemPool::delete(txid), txid and every stored transaction that
\* transitively spends an output of a removed transaction are absent, the
\* spent_utxos and used_nullifiers entries of the removed transactions are
\* gone, every other transaction and every other entry is unchanged, and
\* nothing changes when txid is not stored.
C20_DeleteRemovesDescendants ==
    [][op'.kind = "delete" =>
        LET removed == WithDescendants(mempool,
                                       {op'.arg} \cap DOMAIN mempool.transactions)
        IN  /\ op'.ok
            /\ mempool' = Without(mempool, removed)
            /\ op'.arg \notin DOMAIN mempool'.transactions
            /\ Spenders(mempool, removed) \cap DOMAIN mempool'.transactions = {}
            /\ op'.arg \notin DOMAIN mempool.transactions => mempool' = mempool]_vars

\* A delete that removed a transaction and a descendant and left another
\* transaction, with its entries, stored.
C20_Witness ==
    /\ op.kind = "delete"
    /\ Cardinality(op.info) >= 2
    /\ StoredTxids # {}
    /\ DOMAIN mempool.spent_utxos # {}

(***************************************************************************)
(* Properties of signing and of proof regeneration.                        *)
(***************************************************************************)
OtherProofs(tx) ==
    {BadProof, prove([i \in 1..Len(tx.inputs) |-> tx.inputs[i][2]])} \ {tx.proof}

\* C21: the signed message is the encoding of the whole transaction, its
\* utreexo proof included: two transactions that differ only in the proof
\* have different signed messages, and an authorized transaction whose
\* authorizations verify fails verification once only its proof is replaced.
C21_ProofIsSigned ==
    (op.kind = "validate_transaction" /\ Len(op.arg.authorizations) > 0
     /\ verify_authorized_transaction(op.arg)) =>
        \A p \in OtherProofs(op.arg.transaction) :
            LET replaced == [op.arg.transaction EXCEPT !.proof = p]
            IN  /\ sign("k1", replaced) # sign("k1", op.arg.transaction)
                /\ ~verify_authorized_transaction(
                        [op.arg EXCEPT !.transaction = replaced])

\* C22: MemPool::regenerate_proofs changes only the proof field of stored
\* transactions: the keys of transactions, the inputs, outputs, bundle and
\* authorizations of every stored transaction, spent_utxos and
\* used_nullifiers are unchanged, and every transaction stays stored under
\* the key that equals its txid.
C22_RegenerateChangesOnlyProofs ==
    [][op'.kind = "regenerate_proofs" =>
        /\ DOMAIN mempool'.transactions = DOMAIN mempool.transactions
        /\ \A id \in DOMAIN mempool.transactions :
              /\ mempool'.transactions[id]
                    = [mempool.transactions[id] EXCEPT !.transaction.proof =
                          mempool'.transactions[id].transaction.proof]
              /\ txid(mempool.transactions[id].transaction) = id
              /\ txid(mempool'.transactions[id].transaction) = id
        /\ mempool'.spent_utxos = mempool.spent_utxos
        /\ mempool'.used_nullifiers = mempool.used_nullifiers]_vars

\* A regeneration that replaced the proof of a stored transaction.
C22_Witness ==
    /\ op.kind = "regenerate_proofs"
    /\ op.ok
    /\ op.info # {}
    /\ DOMAIN mempool.spent_utxos # {}

(***************************************************************************)
(* The byte encoding of outpoints.  Here a hash is its 32 bytes and the   *)
(* vout of an outpoint [kind, hash, vout] is a u32, held as its high and   *)
(* low 16-bit words.                                                       *)
(***************************************************************************)
OUTPOINT_KEY_SIZE == 37
HashWidth == 32
U32(hi, lo) == [hi |-> hi, lo |-> lo]
U32Max == U32(65535, 65535)

Deposit(txid_bytes, vout) == [kind |-> "Deposit", hash |-> txid_bytes, vout |-> vout]

\* An encoding of a u32 that keeps the low byte only.
u32_low_byte_only(v) == <<v.lo % 256, 0, 0, 0>>
\* borsh of a u32: four bytes, little endian.
u32_to_le_bytes(v) ==
    <<v.lo % 256, v.lo \div 256, v.hi % 256, v.hi \div 256>>
u32_from_le_bytes(b) == U32(b[3] + 256 * b[4], b[1] + 256 * b[2])

\* borsh of OutPoint: the variant index, the 32 hash bytes, the vout.
borsh_outpoint(outpoint) ==
    << CASE outpoint.kind = "Regular" -> 0
         [] outpoint.kind = "Coinbase" -> 1
         [] outpoint.kind = "Deposit" -> 2 >>
    \o outpoint.hash \o u32_to_le_bytes(outpoint.vout)

\* The cursor over the zeroed key buffer: the bytes written, as far as the
\* buffer reaches, and zeros behind them.
write_to_key_buffer(bytes) ==
    [i \in 1..OUTPOINT_KEY_SIZE |-> IF i <= Len(bytes) THEN bytes[i] ELSE 0]

\* From<OutPoint> for OutPointKey
outpoint_key_from(outpoint) == write_to_key_buffer(borsh_outpoint(outpoint))

\* From<OutPointKey> for OutPoint: OutPoint::deserialize_reader on the key.
outpoint_from_key(key) ==
    [kind |-> CASE key[1] = 0 -> "Regular"
                [] key[1] = 1 -> "Coinbase"
                [] key[1] = 2 -> "Deposit"
                [] OTHER -> "invalid",
     hash |-> SubSeq(key, 2, 1 + HashWidth),
     vout |-> u32_from_le_bytes(SubSeq(key, 2 + HashWidth, 5 + HashWidth))]

\* Hashes and vouts of the outpoints converted.
KeyHashes ==
    {[i \in 1..HashWidth |-> 0], [i \in 1..HashWidth |-> 255],
     [i \in 1..HashWidth |-> IF i = 1 THEN 1 ELSE 0],
     [i \in 1..HashWidth |-> IF i = HashWidth THEN 2 ELSE 0]}
KeyVouts ==
    {U32(0, 0), U32(0, 1), U32(0, 255), U32(0, 256), U32(1, 0), U32(256, 0),
     U32(65535, 65534), U32Max}
KeyOutPoints ==
    {Regular(h, v) : h \in KeyHashes, v \in KeyVouts}
    \cup {Coinbase(h, v) : h \in KeyHashes, v \in KeyVouts}
    \cup {Deposit(h, v) : h \in KeyHashes, v \in KeyVouts}

\* The conversions of one outpoint, step by step.
OutPointInit ==
    /\ tip = None
    /\ height = None
    /\ utxos = EmptyMap
    /\ stxos = EmptyMap
    /\ accumulator = AccumulatorDefault
    /\ frontier = FrontierDefault
    /\ nullifiers = {}
    /\ historical_roots = EmptyMap
    /\ archive = <<>>
    /\ mempool = MemPoolDefault
    /\ node = MainchainTaskHandleNew
    /\ \E outpoint \in KeyOutPoints : op = [kind |-> "outpoint", arg |-> outpoint]

\* borsh::to_vec(&op) and OutPointKey::from(op)
EncodeOutPoint ==
    /\ op.kind = "outpoint"
    /\ op' = [kind |-> "outpoint_key", arg |-> op.arg,
              serialized |-> borsh_outpoint(op.arg),
              key |-> outpoint_key_from(op.arg)]
    /\ Abort
    /\ UNCHANGED <<archive, mempool, node>>

\* OutPoint::from(key)
DecodeOutPointKey ==
    /\ op.kind = "outpoint_key"
    /\ op' = [kind |-> "outpoint_decoded", arg |-> op.arg, key |-> op.key,
              decoded |-> outpoint_from_key(op.key)]
    /\ Abort
    /\ UNCHANGED <<archive, mempool, node>>

OutPointNext == EncodeOutPoint \/ DecodeOutPointKey

OutPointSpec == OutPointInit /\ [][OutPointNext]_vars

\* C23: for every outpoint of each of the three variants, vout = u32::MAX
\* included, the canonical serialization has exactly 37 bytes, the outpoint
\* decoded from the key of an outpoint is that outpoint, and distinct
\* outpoints have distinct keys.
C23_OutPointKeyRoundTrip ==
    /\ op.kind = "outpoint_key" =>
          /\ Len(op.serialized) = OUTPOINT_KEY_SIZE
          /\ op.key = op.serialized
          /\ \A other \in KeyOutPoints :
                 outpoint_key_from(other) = op.key => other = op.arg
    /\ op.kind = "outpoint_decoded" => op.decoded = op.arg

\* A Deposit outpoint with vout = u32::MAX, converted to a key and back.
C23_Witness ==
    /\ op.kind = "outpoint_decoded"
    /\ op.arg.kind = "Deposit"
    /\ op.arg.vout = U32Max
    /\ op.decoded.vout = U32Max

(***************************************************************************)
(* The mainchain task and its handles.  The task takes requests from the   *)
(* request channel one at a time; the response goes to the oneshot sender  *)
(* that came with the request or, without one, to the response stream.     *)
(* Dropping a handle runs Drop::drop and then drops its fields in order,   *)
(* the reference to the JoinHandle before the sender; drops of different   *)
(* clones may run on different threads and interleave.                     *)
(***************************************************************************)
Requests == {"AncestorHeaders", "VerifyBmm"}
\* What request_ancestor_headers and request_bmm_commitments return.
RequestResults == {"Ok", "Archive", "DbWrite", "Mainchain"}

NodeOnly == Abort /\ UNCHANGED <<archive, mempool, op>>

\* The mainchain block hashes requests name.
BlockHashes == {"m1", "m2"}

\* A send on the request channel: an error once the task has dropped the
\* receiver.
send_request(n, request, main_hash, oneshot) ==
    IF n.task = "running"
    THEN [n EXCEPT !.requests = Append(@, [request |-> request,
                                           block_hash |-> main_hash,
                                           oneshot |-> oneshot]),
                   !.accepted = Append(@, [request |-> request,
                                           block_hash |-> main_hash,
                                           oneshot |-> oneshot # "none"]),
                   !.sent = @ + 1]
    ELSE [n EXCEPT !.sent = @ + 1]

\* MainchainTaskHandle::request
HandleRequest(h, request, main_hash) ==
    /\ node.handles[h] = "live"
    /\ node.sent < MaxRequests
    /\ node' = send_request(node, request, main_hash, "none")
    /\ NodeOnly

\* MainchainTaskHandle::request_oneshot
HandleRequestOneshot(h, request, main_hash) ==
    /\ node.handles[h] = "live"
    /\ node.sent < MaxRequests
    /\ node' = send_request(node, request, main_hash, "open")
    /\ NodeOnly

\* The requester drops the oneshot receiver of a request not yet answered:
\* request i of the channel, or with i = 0 the request being served.
DropOneshotReceiver(i) ==
    /\ IF i = 0
       THEN /\ node.serving # <<>>
            /\ node.serving[1].oneshot = "open"
            /\ node' = [node EXCEPT !.serving[1].oneshot = "dropped"]
       ELSE /\ node.requests[i].oneshot = "open"
            /\ node' = [node EXCEPT !.requests[i].oneshot = "dropped"]
    /\ NodeOnly

\* The node drops the receiver of the response stream.
DropResponseStream ==
    /\ node.response_rx
    /\ node' = [node EXCEPT !.response_rx = FALSE]
    /\ NodeOnly

\* MainchainTask::run, self.request_rx.next().await: the next request is
\* taken from the channel.
run_receive(n) ==
    [n EXCEPT !.serving = <<Head(n.requests)>>, !.requests = Tail(@)]

RunReceive ==
    /\ node.task = "running"
    /\ node.serving = <<>>
    /\ node.requests # <<>>
    /\ node' = run_receive(node)
    /\ NodeOnly

\* A response built from the last request of the channel.
response_for_last(n, result) ==
    IF n.requests = <<>> THEN [request |-> n.serving[1].request,
                               block_hash |-> n.serving[1].block_hash,
                               result |-> result]
    ELSE [request |-> n.requests[Len(n.requests)].request,
          block_hash |-> n.requests[Len(n.requests)].block_hash,
          result |-> result]

\* Response::AncestorHeaders(main_block_hash, res) and
\* Response::VerifyBmm(block_hash, res) for the request being served.
response_for(n, result) ==
    [request |-> n.serving[1].request,
     block_hash |-> n.serving[1].block_hash,
     result |-> result]

\* MainchainTask::run, the body of the loop: the request taken from the
\* channel is served with the given result and the response is sent on the
\* oneshot sender of the request or, without one, on the response stream; a
\* failed send ends run with the error, and the receiver of the request
\* channel goes with the task.
run_request(n, result) ==
    LET head == n.serving[1]
        Built(m) == [m EXCEPT !.serving = <<>>,
                              !.produced = Append(@, [request |-> response_for(n, result).request,
                                                      block_hash |-> response_for(n, result).block_hash])]
    IN  IF head.oneshot = "open"
        THEN Built([n EXCEPT !.oneshots = Append(@, response_for(n, result))])
        ELSE IF head.oneshot = "dropped"
        THEN Built([n EXCEPT !.requests = <<>>, !.task = "SendResponseOneshot"])
        ELSE IF n.response_rx
        THEN Built([n EXCEPT !.responses = Append(@, response_for(n, result))])
        ELSE Built([n EXCEPT !.requests = <<>>, !.task = "SendResponse"])

RunRequest(result) ==
    /\ node.task = "running"
    /\ node.serving # <<>>
    /\ node' = run_request(node, result)
    /\ NodeOnly

\* MainchainTask::run, the end of the loop: request_rx.next() yields None
\* when the channel is empty and every sender is dropped.
RunDisconnected ==
    /\ node.task = "running"
    /\ node.serving = <<>>
    /\ node.requests = <<>>
    /\ node.senders = 0
    /\ node' = [node EXCEPT !.task = "finished"]
    /\ NodeOnly

\* Clone for MainchainTaskHandle
CloneHandle(h, c) ==
    /\ node.handles[h] = "live"
    /\ node.handles[c] = "none"
    /\ node' = [node EXCEPT !.handles[c] = "live", !.strong = @ + 1,
                            !.senders = @ + 1]
    /\ NodeOnly

\* Drop::drop for MainchainTaskHandle: Arc::get_mut yields the JoinHandle
\* when this is the only reference, and the task is aborted.
drop_handle(n, h) ==
    IF n.strong = 1
    THEN [n EXCEPT !.handles[h] = "in_drop",
                   !.abort_called = TRUE,
                   !.task = IF @ = "running" THEN "aborted" ELSE @]
    ELSE [n EXCEPT !.handles[h] = "in_drop"]

DropHandle(h) ==
    /\ node.handles[h] = "live"
    /\ node' = drop_handle(node, h)
    /\ NodeOnly

\* The field task of a dropped handle is dropped: one reference less.
DropTaskField(h) ==
    /\ node.handles[h] = "in_drop"
    /\ node' = [node EXCEPT !.handles[h] = "task_dropped", !.strong = @ - 1]
    /\ NodeOnly

\* The field request_tx of a dropped handle is dropped: one sender less.
DropRequestTxField(h) ==
    /\ node.handles[h] = "task_dropped"
    /\ node' = [node EXCEPT !.handles[h] = "dropped", !.senders = @ - 1]
    /\ NodeOnly

MainchainTaskNext ==
    \/ \E h \in 1..MaxHandles, request \in Requests, main_hash \in BlockHashes :
           HandleRequest(h, request, main_hash)
    \/ \E h \in 1..MaxHandles, request \in Requests, main_hash \in BlockHashes :
           HandleRequestOneshot(h, request, main_hash)
    \/ \E i \in 0..Len(node.requests) : DropOneshotReceiver(i)
    \/ DropResponseStream
    \/ RunReceive
    \/ \E result \in RequestResults : RunRequest(result)
    \/ RunDisconnected
    \/ \E h \in 1..MaxHandles, c \in 1..MaxHandles : CloneHandle(h, c)
    \/ \E h \in 1..MaxHandles : DropHandle(h)
    \/ \E h \in 1..MaxHandles : DropTaskField(h)
    \/ \E h \in 1..MaxHandles : DropRequestTxField(h)

MainchainTaskSpec == Init /\ [][MainchainTaskNext]_vars

\* C24: the mainchain task keeps serving requests after a request that ended
\* in an error and after a response that could not be delivered; its run
\* ends only when the request channel is disconnected (it is empty and every
\* sender is dropped).
C24_TaskKeepsServing ==
    [][(node.task = "running" /\ node'.task \notin {"running", "aborted"}) =>
          (node.requests = <<>> /\ node.senders = 0)]_vars

AllHandlesDropped == \A h \in 1..MaxHandles : node.handles[h] \in {"none", "dropped"}

\* C25: for every interleaving of the drops of handle clones, drops that run
\* concurrently on different threads included, the task is aborted when the
\* last clone is dropped, and it is not aborted while a clone remains.
C25_AbortOnLastDrop ==
    /\ AllHandlesDropped => node.abort_called
    /\ node.abort_called => \A h \in 1..MaxHandles : node.handles[h] # "live"

(***************************************************************************)
(* State::sidechain_wealth over stored UTXOs and STXOs of every kind.      *)
(* Here the hash of a key is a small number that stands for its 32 bytes.  *)
(***************************************************************************)
InPointWithdrawal(id) == [kind |-> "Withdrawal", txid |-> id]

\* Ord for OutPointKey: the bytes compared left to right.
key_less(a, b) ==
    \/ a[1] < b[1]
    \/ a[1] = b[1] /\ a[2] < b[2]
    \/ a[1] = b[1] /\ a[2] = b[2] /\ a[3] < b[3]

\* The keys of a database in the order its iterator yields them.
RECURSIVE iter_keys(_)
iter_keys(S) ==
    IF S = {} THEN <<>>
    ELSE LET First(k) == <<k>> \o iter_keys(S \ {k})
         IN  First(CHOOSE k \in S : \A other \in S \ {k} : key_less(k, other))

\* State::sidechain_wealth, the loop over utxos.
RECURSIVE wealth_utxos(_, _, _)
wealth_utxos(m, keys, total_deposit_utxo_value) ==
    IF keys = <<>> THEN Some(total_deposit_utxo_value)
    ELSE IF to_outpoint(Head(keys)).kind = "Deposit"
    THEN LET Added(s) == IF s = None THEN None
                         ELSE wealth_utxos(m, Tail(keys), Unwrap(s))
         IN  Added(checked_add(total_deposit_utxo_value,
                               get_value(m[Head(keys)])))
    ELSE wealth_utxos(m, Tail(keys), total_deposit_utxo_value)

\* The statement that sets total_withdrawal_stxo_value for a withdrawn STXO.
withdrawal_total(total_deposit_stxo_value, total_withdrawal_stxo_value, value) ==
    checked_add(total_deposit_stxo_value, value)

\* State::sidechain_wealth, the loop over stxos.
RECURSIVE wealth_stxos(_, _, _, _)
wealth_stxos(m, keys, total_deposit_stxo_value, total_withdrawal_stxo_value) ==
    IF keys = <<>>
    THEN Some([deposit |-> total_deposit_stxo_value,
               withdrawal |-> total_withdrawal_stxo_value])
    ELSE LET spent_output == m[Head(keys)]
             value == get_value(spent_output.output)
             Withdrawn(dep, w) ==
                 IF w = None THEN None
                 ELSE wealth_stxos(m, Tail(keys), dep, Unwrap(w))
             Deposited(d) ==
                 IF d = None THEN None
                 ELSE IF spent_output.inpoint.kind = "Withdrawal"
                 THEN Withdrawn(Unwrap(d),
                                withdrawal_total(Unwrap(d),
                                                 total_withdrawal_stxo_value, value))
                 ELSE wealth_stxos(m, Tail(keys), Unwrap(d),
                                   total_withdrawal_stxo_value)
         IN  Deposited(IF to_outpoint(Head(keys)).kind = "Deposit"
                       THEN checked_add(total_deposit_stxo_value, value)
                       ELSE Some(total_deposit_stxo_value))

\* State::sidechain_wealth
sidechain_wealth(st) ==
    LET Overflow == [ok |-> FALSE, err |-> "AmountOverflow", value |-> 0]
        Total(dep_utxo, s) ==
            IF s = None \/ dep_utxo = None THEN Overflow
            ELSE IF checked_add(Unwrap(dep_utxo), Unwrap(s).deposit) = None
            THEN Overflow
            ELSE IF Unwrap(dep_utxo) + Unwrap(s).deposit < Unwrap(s).withdrawal
            THEN Overflow
            ELSE [ok |-> TRUE, err |-> "",
                  value |-> Unwrap(dep_utxo) + Unwrap(s).deposit
                                - Unwrap(s).withdrawal]
    IN  Total(wealth_utxos(st.utxos, iter_keys(DOMAIN st.utxos), 0),
              wealth_stxos(st.stxos, iter_keys(DOMAIN st.stxos), 0, 0))

\* Contents of utxos and stxos: outputs of value 1 or 2 under a Regular and
\* two Deposit outpoints, spent by a transaction or by a withdrawal.
WealthKeys == {<<0, 0, 0>>, <<2, 0, 0>>, <<2, 1, 0>>}
WealthOutputs == {Output(get_address("k1"), v) : v \in 1..2}
WealthSpentOutputs ==
    {SpentOutput(o, i) : o \in WealthOutputs,
                         i \in {InPointRegular(0, 0), InPointWithdrawal(0)}}
MapsInto(keys, values) == UNION {[ks -> values] : ks \in SUBSET keys}

WealthInit ==
    /\ tip = None
    /\ height = None
    /\ utxos \in MapsInto(WealthKeys \ {<<2, 1, 0>>}, WealthOutputs)
    /\ stxos \in MapsInto(WealthKeys, WealthSpentOutputs)
    /\ accumulator = AccumulatorDefault
    /\ frontier = FrontierDefault
    /\ nullifiers = {}
    /\ historical_roots = EmptyMap
    /\ archive = <<>>
    /\ mempool = MemPoolDefault
    /\ node = MainchainTaskHandleNew
    /\ op = Idle

\* State::sidechain_wealth
SidechainWealth ==
    /\ op = Idle
    /\ LET Returned(r) ==
               op' = [kind |-> "sidechain_wealth", arg |-> <<>>, ok |-> r.ok,
                      err |-> r.err, value |-> r.value]
       IN  Returned(sidechain_wealth(DB))
    /\ Abort
    /\ UNCHANGED <<archive, mempool, node>>

WealthNext == SidechainWealth

WealthSpec == WealthInit /\ [][WealthNext]_vars

DepositKeys(m) == {k \in DOMAIN m : to_outpoint(k).kind = "Deposit"}
WithdrawnKeys == {k \in DOMAIN stxos : stxos[k].inpoint.kind = "Withdrawal"}
StxoOutputs == [k \in DOMAIN stxos |-> stxos[k].output]
WealthExpected ==
    SumValues(utxos, DepositKeys(utxos))
    + SumValues(StxoOutputs, DepositKeys(stxos))
    - SumValues(StxoOutputs, WithdrawnKeys)

\* C26: State::sidechain_wealth returns the sum of the values of the utxos
\* with a Deposit outpoint, plus the sum of the values of the stxos with a
\* Deposit outpoint, minus the sum of the values of the stxos whose inpoint
\* is a Withdrawal, whenever none of these overflows or goes negative.
C26_SidechainWealth ==
    (/\ op.kind = "sidechain_wealth"
     /\ SumValues(utxos, DepositKeys(utxos))
            + SumValues(StxoOutputs, DepositKeys(stxos)) <= MaxAmount
     /\ SumValues(StxoOutputs, WithdrawnKeys) <= MaxAmount
     /\ WealthExpected >= 0)
        => op.ok /\ op.value = WealthExpected

(***************************************************************************)
(* State::validate_filled_transaction over filled transactions with and    *)
(* without a bundle, with value balances of either sign.                   *)
(***************************************************************************)
\* Longest list of spent UTXOs and of outputs of a filled transaction.
MaxValues == 2

ValueLists ==
    UNION {[1..n -> {Output(get_address("k1"), v) : v \in 0..MaxAmount}] :
              n \in 0..MaxValues}
ValueBalances == (0 - MaxAmount)..MaxAmount
FilledTransactions ==
    {[transaction |-> Tx(<<>>, BadProof, outs, bundle), spent_utxos |-> spent] :
        spent \in ValueLists, outs \in ValueLists,
        bundle \in {None} \cup {Some([B1 EXCEPT !.value_balance = vb]) :
                                   vb \in ValueBalances}}

FeeInit ==
    /\ tip = None
    /\ height = None
    /\ utxos = EmptyMap
    /\ stxos = EmptyMap
    /\ accumulator = AccumulatorDefault
    /\ frontier = FrontierDefault
    /\ nullifiers = {}
    /\ historical_roots = EmptyMap
    /\ archive = <<>>
    /\ mempool = MemPoolDefault
    /\ node = MainchainTaskHandleNew
    /\ \E filled \in FilledTransactions :
           op = [kind |-> "filled_transaction", arg |-> filled]

\* State::validate_filled_transaction
ValidateFilledTransaction ==
    /\ op.kind = "filled_transaction"
    /\ LET Returned(r) ==
               op' = [kind |-> "validate_filled_transaction", arg |-> op.arg,
                      ok |-> r.ok, err |-> r.err, fee |-> r.fee]
       IN  Returned(validate_filled_transaction(op.arg))
    /\ Abort
    /\ UNCHANGED <<archive, mempool, node>>

FeeNext == ValidateFilledTransaction

FeeSpec == FeeInit /\ [][FeeNext]_vars

OutputsValue(outputs) ==
    SeqSum([i \in 1..Len(outputs) |-> get_value(outputs[i])], 1)
ValueBalance(tx) ==
    IF IsSome(tx.orchard_bundle) THEN Unwrap(tx.orchard_bundle).value_balance ELSE 0
ValueIn(filled) ==
    OutputsValue(filled.spent_utxos)
    + (IF ValueBalance(filled.transaction) > 0
       THEN ValueBalance(filled.transaction) ELSE 0)
ValueOut(filled) ==
    OutputsValue(filled.transaction.outputs)
    + (IF ValueBalance(filled.transaction) < 0
       THEN 0 - ValueBalance(filled.transaction) ELSE 0)

\* C27: State::validate_filled_transaction returns value_in - value_out,
\* where value_in is the sum of the spent UTXO values plus a positive value
\* balance and value_out the sum of the output values plus the amount of a
\* negative value balance; it returns AmountOverflow when a sum overflows,
\* NotEnoughValueIn exactly when value_out > value_in, and no fee in these
\* cases.
C27_FeeIsValueInMinusValueOut ==
    op.kind = "validate_filled_transaction" =>
        IF ValueIn(op.arg) > MaxAmount \/ ValueOut(op.arg) > MaxAmount
        THEN ~op.ok /\ op.err = "AmountOverflow"
        ELSE /\ ValueOut(op.arg) > ValueIn(op.arg)
                  <=> (~op.ok /\ op.err = "NotEnoughValueIn")
             /\ ValueOut(op.arg) <= ValueIn(op.arg)
                  <=> (op.ok /\ op.fee = ValueIn(op.arg) - ValueOut(op.arg))

\* A fee that a negative value balance has lowered.
C27_Witness ==
    /\ op.kind = "validate_filled_transaction"
    /\ op.ok
    /\ ValueBalance(op.arg.transaction) < 0
    /\ op.fee > 0
    /\ op.fee < OutputsValue(op.arg.spent_utxos)

(***************************************************************************)
(* The order of the checks of block::validate and block::prevalidate.      *)
(* Each step is stated on its own, from the header, the body and the       *)
(* stored UTXOs and accumulator; steps that need the spent outputs are     *)
(* stated for bodies whose inputs all resolve.                             *)
(***************************************************************************)
\* The spent outputs of a transaction whose inputs resolve.
SpentOutputs(st, tx) ==
    [j \in 1..Len(tx.inputs) |-> st.utxos[from_outpoint(tx.inputs[j][1])]]

FilledWith(st, tx) == [transaction |-> tx, spent_utxos |-> SpentOutputs(st, tx)]

\* The fee of a transaction that satisfies the value rule.
FeeOf(st, tx) == ValueIn(FilledWith(st, tx)) - ValueOut(FilledWith(st, tx))

RECURSIVE FeesThrough(_, _, _)
FeesThrough(st, txs, i) ==
    IF i = 0 THEN 0 ELSE FeesThrough(st, txs, i - 1) + FeeOf(st, txs[i])

\* The per-transaction step for transaction i: the value rule, the running
\* total of the fees, then the utreexo proof of the spent leaves.
TransactionStep(st, txs, i) ==
    IF \/ ValueIn(FilledWith(st, txs[i])) > MaxAmount
       \/ ValueOut(FilledWith(st, txs[i])) > MaxAmount
    THEN "AmountOverflow"
    ELSE IF ValueOut(FilledWith(st, txs[i])) > ValueIn(FilledWith(st, txs[i]))
    THEN "NotEnoughValueIn"
    ELSE IF FeesThrough(st, txs, i) > MaxAmount THEN "AmountOverflow"
    ELSE IF ~verify(st.accumulator, txs[i].proof,
                    [j \in 1..Len(txs[i].inputs) |-> txs[i].inputs[j][2]])
    THEN "UtreexoProofFailed"
    ELSE ""

RECURSIVE TransactionsStepFrom(_, _, _)
TransactionsStepFrom(st, txs, i) ==
    IF i > Len(txs) THEN ""
    ELSE LET Or(e) == IF e # "" THEN e ELSE TransactionsStepFrom(st, txs, i + 1)
         IN  Or(TransactionStep(st, txs, i))

\* The error of the first transaction, in body order, that fails its step.
TransactionsStep(st, txs) == TransactionsStepFrom(st, txs, 1)

\* Some authorization is by a key that does not own the output spent by the
\* input at the same position of the flattened input list.
SignerIsNotOwner(st, body) ==
    \E k \in 1..Min(Len(body.authorizations), Len(InputOutpoints(body))) :
        get_address(body.authorizations[k].verifying_key)
            # st.utxos[from_outpoint(InputOutpoints(body)[k])].address

\* Blocks are validated, and prevalidated and connected, on the ledgers that
\* prevalidated blocks build; the blocks include those failing several
\* checks at once.
ValidationBlocks == Blocks \cup FaultyBlocks

ValidationNext ==
    \/ op = Idle /\ \E block \in ValidationBlocks : ValidateBlock(block)
    \/ op = Idle /\ \E block \in ValidationBlocks : ConnectPrevalidated(block)
    \/ Return

ValidationSpec == Init /\ [][ValidationNext]_vars

\* Step k in the order of the code: the error the step reports when it
\* fails and "" when it passes.  The steps after the UTXO lookup are stated
\* for bodies whose inputs resolve, the fee comparison for bodies whose
\* transactions pass their step.
ValidationStep(k, st, header, body) ==
    CASE k = 1 -> IF header.prev_side_hash # st.tip
                  THEN "InvalidHeader::PrevSideHash" ELSE ""
      [] k = 2 -> IF Len(body.authorizations) > body_sigops_limit(NextHeight(st))
                  THEN "TooManySigops" ELSE ""
      [] k = 3 -> IF object_length(body) > body_size_limit(NextHeight(st))
                  THEN "BodyTooLarge" ELSE ""
      [] k = 4 -> IF compute_merkle_root(body) # header.merkle_root
                  THEN "InvalidBody" ELSE ""
      [] k = 5 -> IF OutputsValue(body.coinbase) > MaxAmount
                  THEN "AmountOverflow" ELSE ""
      [] k = 6 -> IF ~InputsResolve(st, body) THEN "NoUtxo" ELSE ""
      [] k = 7 -> IF SpendsTwice(body) THEN "UtxoDoubleSpent" ELSE ""
      [] k = 8 -> IF InputsResolve(st, body)
                  THEN TransactionsStep(st, body.transactions) ELSE ""
      [] k = 9 -> IF /\ InputsResolve(st, body)
                     /\ TransactionsStep(st, body.transactions) = ""
                     /\ OutputsValue(body.coinbase)
                           > FeesThrough(st, body.transactions,
                                         Len(body.transactions))
                  THEN "NotEnoughFees" ELSE ""
      [] k = 10 -> IF InputsResolve(st, body) /\ SignerIsNotOwner(st, body)
                   THEN "WrongPubKeyForAddress" ELSE ""
      [] k = 11 -> IF verify_authorizations(body) # ""
                   THEN "AuthorizationError" ELSE ""
      [] k = 12 -> IF ~modify_memforest(st.accumulator, body).ok
                   THEN "Utreexo" ELSE ""
      [] OTHER -> LET Roots(m) ==
                          IF m.ok /\ get_roots(m.acc) # header.roots
                          THEN "UtreexoRootsMismatch" ELSE ""
                  IN  Roots(modify_memforest(st.accumulator, body))

ValidationSteps(st, header, body) ==
    [k \in 1..13 |-> ValidationStep(k, st, header, body)]

FailingSteps(steps) == {k \in 1..Len(steps) : steps[k] # ""}

RECURSIVE EarliestFailureFrom(_, _, _, _)
EarliestFailureFrom(k, st, header, body) ==
    IF k > 13 THEN ""
    ELSE LET Or(e) ==
                 IF e # "" THEN e ELSE EarliestFailureFrom(k + 1, st, header, body)
         IN  Or(ValidationStep(k, st, header, body))

\* The error of the earliest failing step, "" when every step passes.
EarliestFailure(st, header, body) == EarliestFailureFrom(1, st, header, body)

MaxAuthorizations == 4

AuthInput(vout) ==
    LET o == Coinbase(compute_merkle_root(Body(<<>>, <<>>, <<>>)), vout)
    IN  <<o, leaf_hash(o, OA)>>

\* Two inputs; one input; one input; no input and a bundle whose binding
\* signature does not verify; the first again with another proof.
AuthTxA == HonestTx(<<AuthInput(0), AuthInput(1)>>, <<>>, None)
AuthTxB == HonestTx(<<AuthInput(2)>>, <<OA>>, None)
AuthTxD == HonestTx(<<AuthInput(3)>>, <<OV>>, None)
AuthTxC == HonestTx(<<>>, <<>>, Some([B1 EXCEPT !.binding_sig_ok = FALSE]))
AuthTxAReproved == [AuthTxA EXCEPT !.proof = BadProof]

AuthTxLists ==
    {<<>>, <<AuthTxA>>, <<AuthTxA, AuthTxB>>, <<AuthTxB, AuthTxA>>,
     <<AuthTxA, AuthTxB, AuthTxD>>, <<AuthTxC>>, <<AuthTxB, AuthTxC>>,
     <<AuthTxAReproved, AuthTxB>>}

AuthCandidates ==
    {Auth(k, t) : k \in {"k1", "k2"}, t \in {AuthTxA, AuthTxB}}
    \cup {Auth("k1", AuthTxD),
          [verifying_key |-> "k1", signature |-> BadSignature]}

AuthBodies ==
    {Body(<<>>, txs, auths) :
        txs \in AuthTxLists,
        auths \in UNION {[1..n -> AuthCandidates] : n \in 0..MaxAuthorizations}}

AuthorizationInit ==
    /\ tip = None
    /\ height = None
    /\ utxos = EmptyMap
    /\ stxos = EmptyMap
    /\ accumulator = AccumulatorDefault
    /\ frontier = FrontierDefault
    /\ nullifiers = {}
    /\ historical_roots = EmptyMap
    /\ archive = <<>>
    /\ mempool = MemPoolDefault
    /\ node = MainchainTaskHandleNew
    /\ \E body \in AuthBodies : op = [kind |-> "body", arg |-> body]

\* Authorization::verify_body
VerifyBody ==
    /\ op.kind = "body"
    /\ LET Returned(e) ==
               op' = [kind |-> "verify_authorizations", arg |-> op.arg,
                      ok |-> e = "", err |-> e]
       IN  Returned(verify_authorizations(op.arg))
    /\ Abort
    /\ UNCHANGED <<archive, mempool, node>>

AuthorizationNext == VerifyBody

AuthorizationSpec == AuthorizationInit /\ [][AuthorizationNext]_vars

\* The number of inputs of the transactions before transaction t.
InputsBefore(txs, t) == SeqSum([s \in 1..(t - 1) |-> Len(txs[s].inputs)], 1)

\* The transaction that owns input i of the flattened input list.
OwnerOfInput(txs, i) ==
    txs[CHOOSE t \in 1..Len(txs) :
            InputsBefore(txs, t) < i /\ i <= InputsBefore(txs, t) + Len(txs[t].inputs)]

\* C29: verify_authorizations accepts a body only if the number of
\* authorizations equals the total number of inputs and, for every i, the
\* i-th authorization is a valid signature by its verifying key over the
\* serialization of the transaction that owns the i-th input of the flattened
\* input list, also when the authorizations span several chunks; an
\* authorization made for one transaction is never accepted for an input of a
\* different transaction; with fewer authorizations than inputs the error is
\* NotEnoughAuthorizations, with more TooManyAuthorizations.
C29_AuthorizationsPairedWithOwners ==
    op.kind = "verify_authorizations" =>
        /\ op.ok =>
             /\ Len(op.arg.authorizations) = Len(InputOutpoints(op.arg))
             /\ \A i \in 1..Len(op.arg.authorizations) :
                  /\ verify_sig(op.arg.authorizations[i].verifying_key,
                        tx_bytes_canonical(OwnerOfInput(op.arg.transactions, i)),
                        op.arg.authorizations[i].signature)
                  /\ \A t \in {AuthTxA, AuthTxB, AuthTxD} :
                        op.arg.authorizations[i].signature
                            = sign(op.arg.authorizations[i].verifying_key, t)
                        => txid(t) = txid(OwnerOfInput(op.arg.transactions, i))
        /\ (\A t \in 1..Len(op.arg.transactions) :
                verify_orchard(op.arg.transactions[t])) =>
             /\ op.err = "NotEnoughAuthorizations"
                  <=> Len(op.arg.authorizations) < Len(InputOutpoints(op.arg))
             /\ op.err = "TooManyAuthorizations"
                  <=> Len(op.arg.authorizations) > Len(InputOutpoints(op.arg))

\* A body of three transactions whose authorizations span two chunks has
\* been accepted.
C29_Witness ==
    /\ op.kind = "verify_authorizations"
    /\ op.ok
    /\ Len(op.arg.transactions) = 3
    /\ Len(op.arg.authorizations) > CHUNK_SIZE

(***************************************************************************)
(* block::connect_prevalidated against block::connect.                     *)
(***************************************************************************)
\* The result of connect_prevalidated on the block of a call, from the
\* PrevalidatedBlock prevalidate returns on the same state.
ConnectedPrevalidated(st, block) ==
    connect_prevalidated(st, block.header, block.body,
        prevalidate(st, block.header, block.body).prevalidated)

\* Both calls fail, or both succeed with the same store contents and the
\* same return value.
SameOutcome(a, b) ==
    /\ a.ok = b.ok
    /\ a.ok => (a.st = b.st /\ a.ret = b.ret)

\* C30: for every state and every block accepted by prevalidate,
\* connect_prevalidated produces the same tip, height, utxos, stxos,
\* accumulator, frontier, nullifiers, historical_roots and return value as
\* block::connect on the same state and block.
C30_ConnectPrevalidatedAsConnect ==
    [][op'.kind = "connect_prevalidated_block" =>
        SameOutcome(ConnectedPrevalidated(DB, op'.arg),
                    connect(DB, op'.arg.header, op'.arg.body))]_vars

(***************************************************************************)
(* MemPool::connect_block and the nullifiers of the block.                 *)
(***************************************************************************)
\* The set of nullifiers revealed by the transactions of a body.
RevealedBy(body) ==
    {BodyNullifiers(body)[i] : i \in 1..Len(BodyNullifiers(body))}

\* The nullifiers revealed by the transactions the mempool stores.
StoredNullifiers(pool) ==
    UNION {NullifiersOf(pool, id) : id \in DOMAIN pool.transactions}

\* C31: when MemPool::connect_block(body) returns, Ok or Err, no transaction
\* stored in the mempool of its write transaction reveals a nullifier that a
\* transaction of body reveals, and used_nullifiers has no entry for such a
\* nullifier; when it returns Ok that mempool is the committed one.
C31_BlockNullifiersEvicted ==
    [][op'.kind = "mempool_connect_block" =>
        LET Evicted(r) ==
                /\ RevealedBy(op'.arg) \cap StoredNullifiers(r.pool) = {}
                /\ RevealedBy(op'.arg) \cap DOMAIN r.pool.used_nullifiers = {}
                /\ r.ok => mempool' = r.pool
        IN  Evicted(connect_block(mempool, accumulator, op'.arg))]_vars

\* connect_block has removed a stored transaction that is not in the body
\* and reveals a nullifier of the body, and another transaction stays stored.
C31_Witness ==
    /\ op.kind = "mempool_connect_block"
    /\ op.ok
    /\ RevealedBy(op.arg) # {}
    /\ \E id \in op.info :
           \A k \in 1..Len(op.arg.transactions) : txid(op.arg.transactions[k]) # id
    /\ DOMAIN mempool.transactions # {}

(***************************************************************************)
(* State::disconnect_tip called with any header and body: the header of    *)
(* an archived block with the body of the same or of another archived      *)
(* block, and a block that was never connected, also on the empty ledger.  *)
(***************************************************************************)
DisconnectBodies ==
    {HonestBody(cb, <<>>) : cb \in {<<OA>>, <<OA, OA>>}}
    \cup {HonestBody(<<>>, <<t>>) : t \in SpendTxs \cup ZeroInputTxs}

DisconnectCandidates ==
    {Block(archive[i].header, archive[j].body) :
        i \in 1..Len(archive), j \in 1..Len(archive)}
    \cup {HonestBlock(HonestBody(<<OA>>, <<>>))}

\* State::disconnect_tip, with the accumulator and frontier stored before
\* the tip was connected.
DisconnectTipWith(block) ==
    /\ op = Idle
    /\ UNCHANGED <<mempool, node>>
    /\ Finish("disconnect_tip", block,
              disconnect_tip(DB, block.header, block.body,
                  IF archive = <<>> THEN accumulator
                  ELSE archive[Len(archive)].prev_accumulator,
                  IF archive = <<>> THEN None
                  ELSE Some(archive[Len(archive)].prev_frontier)),
              SubSeq(archive, 1, Len(archive) - 1))

DisconnectNext ==
    \/ op = Idle /\ \E body \in DisconnectBodies :
                        ConnectPrevalidated(HonestBlock(body))
    \/ op = Idle /\ \E block \in DisconnectCandidates : DisconnectTipWith(block)
    \/ Return

DisconnectSpec == Init /\ [][DisconnectNext]_vars

\* The result of the disconnect_tip call of a step, from the state before it.
Disconnected(block) ==
    disconnect_tip(DB, block.header, block.body,
        IF archive = <<>> THEN accumulator
        ELSE archive[Len(archive)].prev_accumulator,
        IF archive = <<>> THEN None
        ELSE Some(archive[Len(archive)].prev_frontier))

\* C32: disconnect_tip returns NoTip when no tip is stored,
\* InvalidHeader::BlockHash when header.hash() differs from the stored tip,
\* and InvalidBody when the merkle root of the body differs from
\* header.merkle_root, in each case with the store as it was; it returns Ok
\* only for the header of the tip with a body of that merkle root.
C32_DisconnectOnlyTheTip ==
    [][op'.kind = "disconnect_tip" =>
        LET header == op'.arg.header
            body == op'.arg.body
            Refused(e) == op'.err = e /\ Disconnected(op'.arg).st = DB
        IN  /\ tip = None => Refused("NoTip")
            /\ (tip # None /\ tip # Some(block_hash(header)))
                 => Refused("InvalidHeader::BlockHash")
            /\ (tip = Some(block_hash(header))
                /\ compute_merkle_root(body) # header.merkle_root)
                 => Refused("InvalidBody")
            /\ op'.ok => /\ tip = Some(block_hash(header))
                         /\ compute_merkle_root(body) = header.merkle_root]_vars

\* disconnect_tip has refused the header of the tip with the body of another
\* block.
C32_Witness ==
    /\ op.kind = "disconnect_tip"
    /\ op.err = "InvalidBody"
    /\ tip = Some(block_hash(op.arg.header))
    /\ compute_merkle_root(op.arg.body) # op.arg.header.merkle_root


(***************************************************************************)
(* MainchainTask::run seen from one handle: requests, the responses built  *)
(* for them and the channel each response is sent on.                      *)
(***************************************************************************)
MaxServed == 2

ResponseNext ==
    \/ \E request \in Requests, main_hash \in BlockHashes :
           node.sent < MaxServed /\ HandleRequest(1, request, main_hash)
    \/ \E request \in Requests, main_hash \in BlockHashes :
           node.sent < MaxServed /\ HandleRequestOneshot(1, request, main_hash)
    \/ \E i \in 0..Len(node.requests) : DropOneshotReceiver(i)
    \/ DropResponseStream
    \/ RunReceive
    \/ \E result \in RequestResults : RunRequest(result)
    \/ DropHandle(1)
    \/ DropTaskField(1)
    \/ DropRequestTxField(1)

ResponseSpec == Init /\ [][ResponseNext]_vars

\* The scheduler polls the spawned task whenever it can make progress.
ResponseFairSpec ==
    ResponseSpec /\ WF_vars(RunReceive) /\ WF_vars(\E result \in RequestResults : RunRequest(result))

\* From<&Response> for Request: the request a response answers.
SameRequest(response, request) ==
    /\ response.request = request.request
    /\ response.block_hash = request.block_hash

\* The responses built so far answer, one for one and in order, the first
\* requests the channel accepted; the request being served is the next one.
ResponsesInRequestOrder ==
    /\ Len(node.produced) + Len(node.serving) <= Len(node.accepted)
    /\ \A k \in 1..Len(node.produced) : SameRequest(node.produced[k], node.accepted[k])
    /\ node.serving # <<>> =>
           /\ SameRequest(node.serving[1], node.accepted[Len(node.produced) + 1])
           /\ (node.serving[1].oneshot # "none") = node.accepted[Len(node.produced) + 1].oneshot
    /\ node.task = "running" =>
           Len(node.produced) + Len(node.serving) + Len(node.requests) = Len(node.accepted)
    /\ Len(node.responses) + Len(node.oneshots) <= Len(node.produced)

\* One response is built for the request being served, and it is sent on
\* one channel: the oneshot sender when the request has one, the response
\* stream otherwise; a send that fails ends the task.
ResponseRouted ==
    IF node'.produced # node.produced
    THEN /\ node.serving # <<>>
         /\ node'.serving = <<>>
         /\ Len(node'.produced) = Len(node.produced) + 1
         /\ SubSeq(node'.produced, 1, Len(node.produced)) = node.produced
         /\ SameRequest(node'.produced[Len(node'.produced)], node.serving[1])
         /\ IF node.serving[1].oneshot # "none"
            THEN /\ node'.responses = node.responses
                 /\ \/ /\ Len(node'.oneshots) = Len(node.oneshots) + 1
                       /\ SubSeq(node'.oneshots, 1, Len(node.oneshots)) = node.oneshots
                       /\ SameRequest(node'.oneshots[Len(node'.oneshots)], node.serving[1])
                       /\ node'.task = node.task
                    \/ /\ node'.oneshots = node.oneshots
                       /\ node.serving[1].oneshot = "dropped"
                       /\ node'.task = "SendResponseOneshot"
            ELSE /\ node'.oneshots = node.oneshots
                 /\ \/ /\ Len(node'.responses) = Len(node.responses) + 1
                       /\ SubSeq(node'.responses, 1, Len(node.responses)) = node.responses
                       /\ SameRequest(node'.responses[Len(node'.responses)], node.serving[1])
                       /\ node'.task = node.task
                    \/ /\ node'.responses = node.responses
                       /\ ~node.response_rx
                       /\ node'.task = "SendResponse"
    ELSE /\ node'.responses = node.responses
         /\ node'.oneshots = node.oneshots
         /\ node.serving # <<>> =>
                /\ node'.serving # <<>>
                /\ SameRequest(node'.serving[1], node.serving[1])

\* C33 as amended: every request the task has received gets exactly one
\* Response with the request's kind and block hash unless the task is aborted
\* while it serves the request; the response is sent on the request's oneshot
\* sender when one was supplied and on the response stream otherwise, never
\* on both, and responses are built in the order the requests were received.
C33_OneResponsePerServedRequest ==
    /\ []ResponsesInRequestOrder
    /\ [][ResponseRouted]_vars
    /\ [](node.task \notin {"running", "aborted"} => node.serving = <<>>)
    /\ (node.serving # <<>>) ~> (node.serving = <<>> \/ node.task = "aborted")

\* C33 as stated: no received request is left without its response.
C33_EveryReceivedRequestAnswered ==
    /\ ResponsesInRequestOrder
    /\ node.task # "running" => node.serving = <<>>

C33_Witness ==
    /\ Len(node.produced) = 2
    /\ Len(node.oneshots) = 1
    /\ Len(node.responses) = 1
    /\ node.accepted[1].oneshot
    /\ ~node.accepted[2].oneshot
    /\ ~SameRequest(node.accepted[1], node.accepted[2])
    /\ SameRequest(node.oneshots[1], node.accepted[1])
    /\ SameRequest(node.responses[1], node.accepted[2])


(***************************************************************************)
(* The application: App, the wallet-sync task and update.  The archive is  *)
(* a forest of sidechain blocks named by numbers; blocks[b] is the         *)
(* prev_side_hash of block b, 0 when it has none.  A block named after     *)
(* its parent has the greater number, as a header commits to the hash of   *)
(* its parent.  Every block pays one output to the wallet, named by the    *)
(* block.                                                                  *)
(***************************************************************************)
MaxBlocks == 4
MaxApps == 2

AppArchives ==
    {blocks \in [1..MaxBlocks -> 0..MaxBlocks] : \A b \in 1..MaxBlocks : blocks[b] < b}

AppTips == {None} \cup {Some(b) : b \in 1..MaxBlocks}

\* Header::prev_side_hash
app_prev_side_hash(blocks, b) == IF blocks[b] = 0 THEN None ELSE Some(blocks[b])

\* Archive::ancestors: the block and its ancestors, the block first.
RECURSIVE ancestors(_, _)
ancestors(blocks, block_tip) ==
    IF block_tip = None THEN <<>>
    ELSE <<Unwrap(block_tip)>>
             \o ancestors(blocks, app_prev_side_hash(blocks, Unwrap(block_tip)))

SeqElems(seq) == {seq[i] : i \in 1..Len(seq)}

\* Archive::last_common_ancestor
last_common_ancestor(blocks, a, b) ==
    LET common == SeqElems(ancestors(blocks, Some(a))) \cap SeqElems(ancestors(blocks, Some(b)))
    IN  IF common = {} THEN None
        ELSE Some(CHOOSE x \in common : \A y \in common : y <= x)

\* update_wallet: the common ancestor of node tip and wallet tip.
common_ancestor(blocks, node_tip, wallet_tip) ==
    IF IsSome(node_tip) /\ IsSome(wallet_tip)
    THEN last_common_ancestor(blocks, Unwrap(node_tip), Unwrap(wallet_tip))
    ELSE None

\* Wallet::disconnect_orchard_block and Wallet::connect_orchard_block
disconnect_orchard_block(blocks, wallet, b) ==
    [tip |-> app_prev_side_hash(blocks, b), utxos |-> wallet.utxos \ {b}]

connect_orchard_block(wallet, b) ==
    [tip |-> Some(b), utxos |-> wallet.utxos \cup {b}]

\* update_wallet, the first loop: blocks are disconnected from the wallet
\* tip until the wallet tip is the common ancestor.
RECURSIVE disconnect_blocks(_, _, _, _)
disconnect_blocks(blocks, wallet, common, disconnected) ==
    IF wallet.tip = common
    THEN [wallet |-> wallet, disconnected |-> disconnected]
    ELSE disconnect_blocks(blocks,
                           disconnect_orchard_block(blocks, wallet, Unwrap(wallet.tip)),
                           common, Append(disconnected, Unwrap(wallet.tip)))

\* take_while(|ancestor| Some(*ancestor) != common_ancestor)
RECURSIVE take_while_not(_, _)
take_while_not(seq, common) ==
    IF seq = <<>> \/ Some(Head(seq)) = common THEN <<>>
    ELSE <<Head(seq)>> \o take_while_not(Tail(seq), common)

blocks_to_connect_all(blocks, node_tip, common) == ancestors(blocks, node_tip)

\* update_wallet: the ancestors of the node tip above the common ancestor.
blocks_to_connect(blocks, node_tip, common) ==
    take_while_not(ancestors(blocks, node_tip), common)

\* update_wallet, the second loop: blocks_to_connect.into_iter().rev()
RECURSIVE connect_blocks(_, _, _)
connect_blocks(wallet, to_connect, connected) ==
    IF to_connect = <<>>
    THEN [wallet |-> wallet, connected |-> connected]
    ELSE connect_blocks(connect_orchard_block(wallet, to_connect[Len(to_connect)]),
                        SubSeq(to_connect, 1, Len(to_connect) - 1),
                        Append(connected, to_connect[Len(to_connect)]))

\* update_wallet on the wallet of a write transaction; put_utxos adds the
\* node's UTXOs of the wallet's addresses.
update_wallet(blocks, node_tip, wallet) ==
    LET WalkConnected(d, c) ==
            [wallet |-> [c.wallet EXCEPT !.utxos = @ \cup SeqElems(ancestors(blocks, node_tip))],
             disconnected |-> d.disconnected,
             connected |-> c.connected]
        WalkDisconnected(common, d) ==
            WalkConnected(d, connect_blocks(d.wallet,
                                        blocks_to_connect(blocks, node_tip, common), <<>>))
        Walk(common) ==
            WalkDisconnected(common, disconnect_blocks(blocks, wallet, common, <<>>))
    IN  Walk(common_ancestor(blocks, node_tip, wallet.tip))

\* How a call of update ends: Ok, an error before the cache is assigned
\* (write_txn, update_wallet, get_utxos), or an error of the commit.
UpdateOutcomes == {"Ok", "UpdateWallet", "Commit"}

\* update: outcome names the step that fails, if one does.  The cache is
\* assigned before the commit.
update(app, outcome) ==
    LET Updated(w) ==
            IF outcome = "UpdateWallet"
            THEN [ok |-> FALSE, app |-> app, walk |-> None]
            ELSE IF outcome = "Commit"
            THEN [ok |-> FALSE, app |-> [app EXCEPT !.utxos = w.wallet.utxos],
                  walk |-> Some(w)]
            ELSE [ok |-> TRUE,
                  app |-> [app EXCEPT !.utxos = w.wallet.utxos, !.wallet = w.wallet],
                  walk |-> Some(w)]
    IN  Updated(update_wallet(app.blocks, app.node_tip, app.wallet))

\* App::new: the wallet holds what an earlier run committed, the cache is
\* read from it, the task is spawned.
AppNew(blocks, node_tip, wallet_tip) ==
    [blocks |-> blocks,
     node_tip |-> node_tip,
     wallet |-> [tip |-> wallet_tip, utxos |-> SeqElems(ancestors(blocks, wallet_tip))],
     utxos |-> SeqElems(ancestors(blocks, wallet_tip)),
     apps |-> 1,
     task |-> "running",
     state_changes |-> FALSE]

AppInit ==
    /\ tip = None
    /\ height = None
    /\ utxos = EmptyMap
    /\ stxos = EmptyMap
    /\ accumulator = AccumulatorDefault
    /\ frontier = FrontierDefault
    /\ nullifiers = {}
    /\ historical_roots = EmptyMap
    /\ archive = <<>>
    /\ mempool = MemPoolDefault
    /\ \E blocks \in AppArchives, node_tip \in AppTips, wallet_tip \in AppTips :
           node = AppNew(blocks, node_tip, wallet_tip)
    /\ op = Idle

AppOnly == Abort /\ UNCHANGED <<archive, mempool>>

Updated(r, caller) ==
    op' = [kind |-> "update", caller |-> caller, ok |-> r.ok, walk |-> r.walk,
           node_tip |-> node.node_tip, wallet_tip |-> node.wallet.tip]

\* The node connects or disconnects blocks: the tip changes and the watch
\* stream of the state yields.
WatchState(node_tip) ==
    /\ node_tip # node.node_tip
    /\ node' = [node EXCEPT !.node_tip = node_tip, !.state_changes = TRUE]
    /\ op' = Idle
    /\ AppOnly

\* App::task, one turn of its loop; an error of update ends the task.
AppTask(outcome) ==
    /\ node.task = "running"
    /\ node.state_changes
    /\ LET Returned(r) ==
               /\ node' = [r.app EXCEPT !.state_changes = FALSE,
                                        !.task = IF r.ok THEN @ ELSE "failed"]
               /\ Updated(r, "task")
       IN  Returned(update(node, outcome))
    /\ AppOnly

\* App::update as called by sign_and_send and mine.
AppUpdate(outcome) ==
    /\ node.apps > 0
    /\ LET Returned(r) == node' = r.app /\ Updated(r, "app")
       IN  Returned(update(node, outcome))
    /\ AppOnly

\* Clone for App
CloneApp ==
    /\ node.apps > 0
    /\ node.apps < MaxApps
    /\ node' = [node EXCEPT !.apps = @ + 1]
    /\ op' = Idle
    /\ AppOnly

\* Drop for App: self.task.abort()
drop_app(app) ==
    [app EXCEPT !.apps = @ - 1,
                !.task = IF @ = "running" THEN "aborted" ELSE @]

DropApp ==
    /\ node.apps > 0
    /\ node' = drop_app(node)
    /\ op' = Idle
    /\ AppOnly

AppNext ==
    \/ \E node_tip \in AppTips : WatchState(node_tip)
    \/ \E outcome \in UpdateOutcomes : AppTask(outcome)
    \/ \E outcome \in UpdateOutcomes : AppUpdate(outcome)
    \/ CloneApp
    \/ DropApp

AppSpec == AppInit /\ [][AppNext]_vars

\* The calls of update alone, with one App that is never dropped.
WalletNext ==
    \/ \E node_tip \in AppTips : WatchState(node_tip)
    \/ \E outcome \in UpdateOutcomes : AppTask(outcome)
    \/ \E outcome \in UpdateOutcomes : AppUpdate(outcome)

WalletSpec == AppInit /\ [][WalletNext]_vars

\* The blocks of the chain that ends in a tip.
ChainOf(blocks, block_tip) == SeqElems(ancestors(blocks, block_tip))

\* A sequence of blocks without repetition in which every block is followed
\* by its parent.
TipToAncestor(blocks, seq) ==
    /\ \A i \in 1..Len(seq), j \in 1..Len(seq) : seq[i] = seq[j] => i = j
    /\ \A i \in 1..(Len(seq) - 1) : blocks[seq[i]] = seq[i + 1]

AncestorToTip(blocks, seq) ==
    /\ \A i \in 1..Len(seq), j \in 1..Len(seq) : seq[i] = seq[j] => i = j
    /\ \A i \in 1..(Len(seq) - 1) : blocks[seq[i + 1]] = seq[i]

\* C34: update_wallet disconnects exactly the blocks of the wallet chain that
\* are not on the node chain, from the wallet tip towards the common
\* ancestor, and then connects exactly the blocks of the node chain that are
\* not on the wallet chain, from the common ancestor towards the node tip;
\* without a wallet tip or a node tip these are the whole wallet chain and
\* the whole node chain; the wallet tip ends as the node tip.
C34_UpdateWalletWalk ==
    [][(op'.kind = "update" /\ IsSome(op'.walk)) =>
          LET walk == Unwrap(op'.walk)
              wallet_chain == ChainOf(node.blocks, node.wallet.tip)
              node_chain == ChainOf(node.blocks, node.node_tip)
          IN  /\ SeqElems(walk.disconnected) = wallet_chain \ node_chain
              /\ TipToAncestor(node.blocks, walk.disconnected)
              /\ walk.disconnected # <<>> => Some(walk.disconnected[1]) = node.wallet.tip
              /\ SeqElems(walk.connected) = node_chain \ wallet_chain
              /\ AncestorToTip(node.blocks, walk.connected)
              /\ walk.connected # <<>> =>
                     Some(walk.connected[Len(walk.connected)]) = node.node_tip
              /\ (node.wallet.tip = None \/ node.node_tip = None) =>
                     /\ SeqElems(walk.disconnected) = wallet_chain
                     /\ SeqElems(walk.connected) = node_chain
              /\ walk.wallet.tip = node.node_tip
              /\ walk.wallet.utxos = node_chain]_vars

C34_Witness ==
    /\ op.kind = "update"
    /\ IsSome(op.walk)
    /\ Len(Unwrap(op.walk).disconnected) = 2
    /\ Len(Unwrap(op.walk).connected) = 1
    /\ IsSome(common_ancestor(node.blocks, op.node_tip, op.wallet_tip))


\* C39: the wallet-sync task is not aborted while an App exists; dropping one
\* clone of App while other clones remain leaves the task running.
C39_TaskRunsWhileAppExists ==
    node.apps > 0 => node.task # "aborted"

\* C40: after every call of update, whether it returns Ok or Err, the shared
\* utxos cache equals the UTXO view of the committed wallet state.
C40_CacheIsCommittedView ==
    op.kind = "update" => node.utxos = node.wallet.utxos


(***************************************************************************)
(* MainchainTask::request_bmm_commitments.  Mainchain blocks are named     *)
(* 1..MaxMain, block b - 1 is the parent of block b and 0 stands for the   *)
(* all-zeros hash; the headers of all of them are in the archive.          *)
(***************************************************************************)
MaxMain == 5
BATCH_REQUEST_SIZE == 2

\* The BMM commitment the mainchain holds for a block.
main_commitment(b) == <<"h*", b>>

\* Archive::main_ancestors: the block and its ancestors, the block first.
main_ancestors(main_hash) == [i \in 1..main_hash |-> main_hash + 1 - i]

\* take_while(block_hash != all_zeros && try_get_main_bmm_commitment is None)
RECURSIVE take_while_missing(_, _)
take_while_missing(commitments, seq) ==
    IF seq = <<>> \/ Head(seq) = 0 \/ Head(seq) \in DOMAIN commitments THEN <<>>
    ELSE <<Head(seq)>> \o take_while_missing(commitments, Tail(seq))

max_ancestors_all(len) == len - 1

\* max_ancestors of a batch
max_ancestors(len) ==
    IF len >= BATCH_REQUEST_SIZE THEN BATCH_REQUEST_SIZE - 1 ELSE len - 1

\* batch_start_idx, counted from 0
batch_start_idx(len) == len - 1 - max_ancestors(len)

drain_front(missing, idx) ==
    [drained |-> SubSeq(missing, 1, Len(missing) - idx),
     rest |-> SubSeq(missing, Len(missing) - idx + 1, Len(missing))]

\* missing_commitments.drain(batch_start_idx..)
drain(missing, idx) ==
    [drained |-> SubSeq(missing, idx + 1, Len(missing)),
     rest |-> SubSeq(missing, 1, idx)]

\* ValidatorClient::get_bmm_hstar_commitments answered with the commitment of
\* the block and of tail_len of its ancestors, the block first.
get_bmm_hstar_commitments(block, tail_len) ==
    [i \in 1..(tail_len + 1) |-> main_commitment(block + 1 - i)]

rev(seq) == [i \in 1..Len(seq) |-> seq[Len(seq) + 1 - i]]

\* a.zip(b): the pairs up to the end of the shorter one.
zip(a, b) ==
    [i \in 1..(IF Len(a) <= Len(b) THEN Len(a) ELSE Len(b)) |-> <<a[i], b[i]>>]

\* try_for_each(put_main_bmm_commitment) over the pairs.
RECURSIVE put_main_bmm_commitments(_, _)
put_main_bmm_commitments(n, pairs) ==
    IF pairs = <<>> THEN n
    ELSE put_main_bmm_commitments(
             [n EXCEPT !.commitments =
                           [b \in DOMAIN @ \cup {Head(pairs)[1]} |->
                               IF b = Head(pairs)[1] THEN Head(pairs)[2] ELSE @[b]],
                       !.puts[Head(pairs)[1]] = @ + 1],
             Tail(pairs))

\* The archive after an earlier run: commitments of blocks 1..k.
BmmInit ==
    /\ tip = None
    /\ height = None
    /\ utxos = EmptyMap
    /\ stxos = EmptyMap
    /\ accumulator = AccumulatorDefault
    /\ frontier = FrontierDefault
    /\ nullifiers = {}
    /\ historical_roots = EmptyMap
    /\ archive = <<>>
    /\ mempool = MemPoolDefault
    /\ \E k \in 0..MaxMain :
           node = [commitments |-> [b \in 1..k |-> main_commitment(b)],
                   puts |-> [b \in 1..MaxMain |-> 0],
                   call |-> None,
                   done |-> <<>>,
                   result |-> "none"]
    /\ op = Idle

\* request_bmm_commitments up to its loop: the early returns and the list
\* of missing commitments, main_hash first.
RequestBmmCommitments(main_hash) ==
    /\ node.call = None
    /\ IF main_hash = 0 \/ main_hash \in DOMAIN node.commitments
       THEN node' = [node EXCEPT !.result = "Ok", !.done = <<>>]
       ELSE node' = [node EXCEPT
                !.result = "none",
                !.done = <<>>,
                !.call = Some([main_hash |-> main_hash,
                               at_start |-> take_while_missing(node.commitments,
                                                               main_ancestors(main_hash)),
                               missing |-> take_while_missing(node.commitments,
                                                              main_ancestors(main_hash)),
                               batches |-> <<>>])]
    /\ NodeOnly

BmmAnswers == {"Full", "Short", "BlockNotFound", "Rpc", "Db"}

\* One turn of the loop of request_bmm_commitments, the mainchain and the
\* database answering as given; tail_len is the length of a short answer.
bmm_batch(n, answer, tail_len) ==
    LET call == Unwrap(n.call)
        len == Len(call.missing)
        Stored(d) ==
            LET Put(m) ==
                    IF d.rest = <<>>
                    THEN [m EXCEPT !.call = None, !.result = "Ok",
                                   !.done = call.at_start]
                    ELSE [m EXCEPT !.call = Some([call EXCEPT !.missing = d.rest,
                                                              !.batches = Append(@, d.drained)])]
            IN  Put(put_main_bmm_commitments(n,
                        zip(rev(d.drained),
                            rev(get_bmm_hstar_commitments(
                                    call.missing[batch_start_idx(len) + 1],
                                    max_ancestors(len))))))
    IN  IF answer = "Rpc" \/ answer = "Db"
        THEN [n EXCEPT !.call = None, !.result = "Err", !.done = call.at_start]
        ELSE IF answer = "BlockNotFound"
                \/ (answer = "Short" /\ tail_len < max_ancestors(len))
        THEN [n EXCEPT !.call = None, !.result = "BlockNotFoundError",
                       !.done = call.at_start]
        ELSE Stored(drain(call.missing, batch_start_idx(len)))

BmmBatch(answer, tail_len) ==
    /\ node.call # None
    /\ answer = "Short" => tail_len < max_ancestors(Len(Unwrap(node.call).missing))
    /\ answer # "Short" => tail_len = 0
    /\ node' = bmm_batch(node, answer, tail_len)
    /\ NodeOnly

BmmNext ==
    \/ \E main_hash \in 0..MaxMain : RequestBmmCommitments(main_hash)
    \/ \E answer \in BmmAnswers, tail_len \in 0..BATCH_REQUEST_SIZE :
           BmmBatch(answer, tail_len)

\* The mainchain task is polled until the call returns.
BmmSpec ==
    BmmInit /\ [][BmmNext]_vars
            /\ WF_vars(\E answer \in BmmAnswers, tail_len \in 0..BATCH_REQUEST_SIZE :
                           BmmBatch(answer, tail_len))

\* A batch stored in full: between 1 and BATCH_REQUEST_SIZE hashes leave the
\* oldest end of the missing list, each is put once with the commitment of
\* that block, and nothing else is put.
BatchStored ==
    (node.call # None /\ node'.commitments # node.commitments) =>
        LET missing == Unwrap(node.call).missing
            rest == IF node'.call = None THEN <<>> ELSE Unwrap(node'.call).missing
            removed == Len(missing) - Len(rest)
        IN  /\ removed >= 1
            /\ removed <= BATCH_REQUEST_SIZE
            /\ rest = SubSeq(missing, 1, Len(rest))
            /\ \A i \in 1..Len(missing) :
                   IF i > Len(rest)
                   THEN /\ missing[i] \notin DOMAIN node.commitments
                        /\ missing[i] \in DOMAIN node'.commitments
                        /\ node'.commitments[missing[i]] = main_commitment(missing[i])
                        /\ node'.puts[missing[i]] = node.puts[missing[i]] + 1
                   ELSE /\ missing[i] \notin DOMAIN node'.commitments
                        /\ node'.puts[missing[i]] = node.puts[missing[i]]
            /\ \A b \in DOMAIN node.commitments :
                   /\ b \in DOMAIN node'.commitments
                   /\ node'.commitments[b] = node.commitments[b]
                   /\ node'.puts[b] = node.puts[b]

\* A call that returns Ok after its loop has stored every hash that was
\* missing at its start, once.
AllStoredOnce ==
    (node.call # None /\ node'.call = None /\ node'.result = "Ok") =>
        \A i \in 1..Len(Unwrap(node.call).at_start) :
            LET b == Unwrap(node.call).at_start[i]
            IN  /\ b \in DOMAIN node'.commitments
                /\ node'.commitments[b] = main_commitment(b)
                /\ node'.puts[b] = 1

\* C35: for every number of missing commitments request_bmm_commitments
\* terminates; each turn of the loop removes between 1 and BATCH_REQUEST_SIZE
\* hashes from the oldest end of the missing list, and every missing hash is
\* stored exactly once, paired with the commitment of that same block.
C35_BmmBatchesTerminate ==
    /\ [][BatchStored /\ AllStoredOnce]_vars
    /\ [](\A b \in 1..MaxMain : node.puts[b] <= 1)
    /\ (node.call # None) ~> (node.call = None)

C35_Witness ==
    /\ node.call = None
    /\ node.result = "Ok"
    /\ Len(node.done) = 2 * BATCH_REQUEST_SIZE
    /\ \A i \in 1..Len(node.done) : node.puts[node.done[i]] = 1

\* C38: the blocks with a stored BMM commitment are closed under ancestors
\* at every committed point of request_bmm_commitments, also after a call
\* that stopped early.
C38_CommitmentsAncestorClosed ==
    \A h \in DOMAIN node.commitments : \A a \in 1..h : a \in DOMAIN node.commitments

C38_Witness ==
    /\ node.call = None
    /\ node.result \in {"BlockNotFoundError", "Err"}
    /\ \E i \in 1..Len(node.done) : node.puts[node.done[i]] = 1
    /\ \E i \in 1..Len(node.done) : node.done[i] \notin DOMAIN node.commitments


\* C36: a block accepted by prevalidate is connected successfully by
\* connect_prevalidated in the same state, and a block accepted by validate
\* is connected successfully by connect.
C36_AcceptedBlockConnects ==
    [][/\ op'.kind = "connect_prevalidated_block" => op'.ok
       /\ (op'.kind = "connect_block"
           /\ validate(DB, op'.arg.header, op'.arg.body).ok) => op'.ok]_vars


\* The outpoint keys connecting a block writes.
CreatedKeys(body) ==
    {from_outpoint(CreatedOutpoints(body)[i]) : i \in 1..Len(CreatedOutpoints(body))}

\* C37: every outpoint written by connecting a block that validate accepts is
\* absent from utxos and from stxos before the connect.
C37_CreatedOutpointsAreNew ==
    [][(op'.kind \in {"connect_block", "connect_prevalidated_block"}
        /\ validate(DB, op'.arg.header, op'.arg.body).ok) =>
          CreatedKeys(op'.arg.body) \cap (DOMAIN utxos \cup DOMAIN stxos) = {}]_vars

====
